---- MODULE Spec2Model ----
(***************************************************************************)
(* Model of runir: intern handles, the CRC / entity interners, the global  *)
(* handle table HANDLES, Tag::link, Linker, Repr and InternTable.          *)
(*                                                                         *)
(* Spec       : one thread driving Linker / Repr operations against the    *)
(*              process-wide HANDLES table.                                *)
(* SpecLinker : Linker::push_level alone, over all eight level flags.      *)
(* SpecChains : Linkers being filled and linked, no Repr built otherwise.  *)
(* SpecTable  : several threads calling InternTable::assign_intern and     *)
(*              reading the same table.                                    *)
(* SpecDigest, SpecInterner, SpecTags : a CrcInterner being fed, set and    *)
(*              finished.                                                  *)
(* SpecLink   : Tag::link alone.   SpecEntity : an entity Linker, upgrade. *)
(* SpecInverse: Repr::downgrade and upgrade of what it returned.           *)
(* SpecRelink : Linker::link called again.   SpecIds : entity ids.         *)
(* SpecRuntime: threads, their ENTROPY cells, new_runtime().               *)
(* SpecLookup : one thread reading an InternTable.                         *)
(* SpecU64    : conversions to u64 and back.                               *)
(* SpecNode   : NodeLevel::configure and the attribute tables.             *)
(* SpecExport : InternMap::iter_for_export.                                *)
(* SpecCounter: one EntityInterner and its counter.                        *)
(* SpecLevel  : Linker::level on any Linker.                               *)
(* SpecWeak   : threads racing assign_intern against copy.                 *)
(* SpecReject : levels pushed or upgraded out of order.                    *)
(***************************************************************************)
EXTENDS Integers, Sequences, FiniteSets, TLC

VARIABLES
    interner,   \* Linker.interner: [kind, counter]
    levels,     \* Linker.levels: handles held by the level tags, in push order
    HANDLES,    \* repr::HANDLES: InternTable<InternHandle>, key -> value
    entropy,    \* entropy::ENTROPY of the running thread
    repr,       \* Option<Repr>: <<>> or <<tail>>
    derived,    \* Option<Repr>: what repr.downgrade(count) returned
    last,       \* the last operation and whether it returned Ok
    table,      \* an InternTable<T>: <<>> before OnceLock init, else <<map>>
    pc,         \* per thread: position inside assign_intern
    arg,        \* per thread: (handle, value) of the running assign_intern
    seen,       \* per handle: the values readers have observed so far
    calls,      \* per handle: assign_intern calls started on it (0, 1, many)
    given,      \* per handle: the values those calls supplied
    cint,       \* a CrcInterner: [digest, flags, tags, data]
    hist,       \* what was pushed and set on cint since its last interner()
    results,    \* one record per interner() call made on a CrcInterner
    written,    \* the (tag, handle) entries tag callbacks have assigned
    ENTITY,     \* entity::ENTITY: InternTable<u64>, handle -> entity id
    cells,      \* per thread: its ENTROPY cell, <<>> while it has not started
    runtimes,   \* the runtime builders made: the entropy each one captured
    workerOf    \* per worker thread: <<>> or <<index of the runtime it runs>>

vars == <<interner, levels, HANDLES, entropy, repr, derived, last,
          table, pc, arg, seen, calls, given,
          cint, hist, results, written, ENTITY,
          cells, runtimes, workerOf>>

linkerVars == <<interner, levels, HANDLES, entropy, repr, derived>>
tableVars == <<table, pc, arg, seen, calls, given>>
crcVars == <<cint, hist, results, written>>
entityVars == <<ENTITY>>
runtimeVars == <<cells, runtimes, workerOf>>

----------------------------------------------------------------------------
(* Bounds of the model.                                                    *)

\* deepest level flag pushed where chains are linked (LEVEL_2: Node)
MaxDepth == 2
\* EntityInterner.counter is a u64; configure calls are capped at this count
MaxCounter == 3
\* threads calling into one InternTable
MaxThreads == 2
\* push_tag calls between two interner() calls of one CrcInterner
MaxTags == 2
\* interner() calls made on CrcInterners
MaxCalls == 2

\* worker threads the runtimes built by new_runtime() start
MaxWorkers == 2
\* new_runtime() calls made
MaxRuntimes == 2

\* Level::configure calls made on NodeLevels
MaxNodes == 2
\* push_tag calls between two interner() calls of one EntityInterner
MaxEntityTags == 1

\* the value set_entropy() draws for a thread
ThreadEntropy == 5

----------------------------------------------------------------------------
(* Fixed-width integer helpers.                                            *)

\* A u16 is a number below U16.  A u32 is the pair <<high u16, low u16>> and
\* a u64 the tuple of its four u16 words, most significant first.
U16 == 65536

\* bitwise operators on one hexadecimal digit, tabulated bit by bit
Bit(x, i) == (x \div (2 ^ i)) % 2
XorDigit ==
    [a \in 0..15 |-> [b \in 0..15 |->
        (IF Bit(a, 0) # Bit(b, 0) THEN 1 ELSE 0)
        + (IF Bit(a, 1) # Bit(b, 1) THEN 2 ELSE 0)
        + (IF Bit(a, 2) # Bit(b, 2) THEN 4 ELSE 0)
        + (IF Bit(a, 3) # Bit(b, 3) THEN 8 ELSE 0)]]
OrDigit ==
    [a \in 0..15 |-> [b \in 0..15 |->
        (IF Bit(a, 0) + Bit(b, 0) > 0 THEN 1 ELSE 0)
        + (IF Bit(a, 1) + Bit(b, 1) > 0 THEN 2 ELSE 0)
        + (IF Bit(a, 2) + Bit(b, 2) > 0 THEN 4 ELSE 0)
        + (IF Bit(a, 3) + Bit(b, 3) > 0 THEN 8 ELSE 0)]]

\* a ^ b and a | b, digit by digit
RECURSIVE Xor(_, _)
Xor(a, b) ==
    IF a = 0 THEN b
    ELSE IF b = 0 THEN a
    ELSE XorDigit[a % 16][b % 16] + 16 * Xor(a \div 16, b \div 16)

RECURSIVE BitOr(_, _)
BitOr(a, b) ==
    IF a = 0 THEN b
    ELSE IF b = 0 THEN a
    ELSE OrDigit[a % 16][b % 16] + 16 * BitOr(a \div 16, b \div 16)

\* u32 ^ u32
Xor32(a, b) == <<Xor(a[1], b[1]), Xor(a[2], b[2])>>

Zero32 == <<0, 0>>

\* u16 << 1 (bits shifted out are dropped)
Shl1(x) == (2 * x) % U16
\* u16 >> 1
Shr1(x) == x \div 2

None == <<>>
Some(x) == <<x>>

----------------------------------------------------------------------------
(* LevelFlags (bitflags over u16, all eight flags in the high byte).       *)

ROOT == 256
LevelFlag(i) == ROOT * (2 ^ i)
LEVEL_1 == LevelFlag(1)
LEVEL_2 == LevelFlag(2)
LEVEL_3 == LevelFlag(3)
LEVEL_7 == LevelFlag(7)
AllLevelFlags == {LevelFlag(i) : i \in 0..7}

\* LevelFlags::from_bits_truncate: keep the defined bits, 0xFF00
from_bits_truncate(bits) == (bits % U16) - (bits % 256)

----------------------------------------------------------------------------
(* InternHandle.                                                           *)

\* InternHandle::default()
DefaultHandle ==
    [link |-> Zero32, register_hi |-> 0, register_lo |-> 0, data |-> 0]

level_flags(h) == from_bits_truncate(h.register_hi)

\* bytemuck::cast::<[u16; 2], u32>([register_lo, register_hi]) (little endian)
register(h) == <<h.register_hi, h.register_lo>>

is_root(h) == level_flags(h) = ROOT
is_node(h) == h.link # Zero32

\* node() yielding a previous handle whatever the two level flags are
node_anyLevel(h, e) ==
    LET prev == Xor32(h.link, register(h))
    IN  [prev |-> Some([link |-> Zero32, register_hi |-> prev[1],
                        register_lo |-> prev[2], data |-> e]),
         current |-> [h EXCEPT !.link = Zero32]]

\* InternHandle::node: (previous, current)
node(h, e) ==
    LET prev == Xor32(h.link, register(h))
        lo == prev[2]
        hi == prev[1]
        prev_level == from_bits_truncate(hi)
    IN  [prev |-> IF Shl1(prev_level) = level_flags(h)
                  THEN Some([link |-> Zero32, register_hi |-> hi,
                             register_lo |-> lo, data |-> e])
                  ELSE None,
         current |-> [h EXCEPT !.link = Zero32]]

\* as_u64 built from the two registers alone
as_u64_registersOnly(h) == <<0, 0, h.register_hi, h.register_lo>>

\* Uuid::from_fields(link, hi, lo, [0; 8]).as_u64_pair().0
as_u64(h) == <<h.link[1], h.link[2], h.register_hi, h.register_lo>>

\* impl From<u64> for InternHandle
FromU64(v, e) ==
    [link |-> <<v[1], v[2]>>,
     register_hi |-> v[3],
     register_lo |-> v[4],
     data |-> e]

----------------------------------------------------------------------------
(* InternTable, as used from a single thread.                              *)

EmptyMap == [k \in {} |-> 0]

\* InternTable::copy
Copy(t, h) == IF h \in DOMAIN t THEN Some(t[h]) ELSE None

\* BTreeMap::insert inside send_modify
MapInsert(t, h, v) == [k \in DOMAIN t \cup {h} |-> IF k = h THEN v ELSE t[k]]

\* assign_intern inserting whether or not the handle has a value
AssignIntern_replaces(t, h, v) == MapInsert(t, h, v)

\* InternTable::assign_intern, check and insert run without interruption
AssignIntern(t, h, v) == IF h \in DOMAIN t THEN t ELSE MapInsert(t, h, v)

----------------------------------------------------------------------------
(* CrcInterner / EntityInterner.                                           *)

\* The i-th CRC-24 checksum the digest can finalize to (bits in both halves)
Checksum(i) == i * 65537

\* CRC_24_OPENPGP of the crc crate: init 0xB704CE, poly 0x864CFB (here with
\* bit 24 set, so that the xor also drops the bit shifted out), no reflection,
\* xorout 0
Crc24Init == 11994318
Crc24Poly == 25578747
Crc24Top == 16777216

\* one bit of the shift register
Crc24Shift(c) ==
    LET s == 2 * c
    IN  IF s >= Crc24Top THEN Xor(s, Crc24Poly) ELSE s

RECURSIVE Crc24Steps(_, _)
Crc24Steps(c, n) == IF n = 0 THEN c ELSE Crc24Steps(Crc24Shift(c), n - 1)

\* Hasher::write of one byte: Digest::update
Crc24Update(c, byte) == Crc24Steps(Xor(c, byte * U16), 8)

\* A level, reduced to what configure feeds the interner: the flag it sets
\* and the checksum of the values it pushes.  There are two root levels
\* (ResourceLevel::new::<T>() for two types T) and one level per other tier.
LevelsTo(depth) ==
    {[flags |-> ROOT, hash |-> Checksum(i)] : i \in {1, 2}}
    \cup {[flags |-> LevelFlag(d), hash |-> Checksum(1)] : d \in 1..depth}

\* every level flag, ROOT to LEVEL_7, two attribute sets for each
AllLevels ==
    {[flags |-> LevelFlag(d), hash |-> Checksum(i)] : d \in 0..7, i \in {1, 2}}
\* the levels pushed where chains are linked
LinkedLevels == LevelsTo(MaxDepth)

InternerKinds == {"crc", "entity"}

\* CrcInterner::new: flags ROOT, data 0
CrcInterner_new == [flags |-> ROOT, data |-> 0]

\* Linker::default(): the interner it owns.  Of a CrcInterner only the
\* EntityInterner counter is kept between configure calls: every
\* Level::configure sets the flags before interner() reads them.
NewInterner(kind) == [kind |-> kind, counter |-> 0]

\* finish with the two halves of the checksum exchanged
finish_swapped(hash) ==
    LET lo == hash % U16
        hi == hash \div U16
    IN  as_u64([link |-> Zero32, register_hi |-> lo, register_lo |-> hi])

\* Hasher::finish for CrcInterner: the checksum as the u64 key
finish(hash) ==
    LET lo == hash % U16
        hi == hash \div U16
    IN  as_u64([link |-> Zero32, register_hi |-> hi, register_lo |-> lo])

\* CrcInterner::interner on a digest that finalizes to hash
CrcInterner_interner(crc, hash, e) ==
    LET field_hash == finish(hash)
        conv == FromU64(field_hash, 0)
    IN  [link |-> conv.link,
         register_hi |-> BitOr(crc.flags, conv.register_hi),
         register_lo |-> conv.register_lo,
         data |-> Xor(e, crc.data)]

\* Level::configure(&mut interner): set_level_flags, then interner().
\* EntityInterner::interner bumps its counter and sets it as the data.
\* Returns the handle and the interner state left behind.
Configure(st, lv, e) ==
    LET counter == IF st.kind = "entity" THEN st.counter + 1 ELSE st.counter
        crc == [flags |-> lv.flags,
                data |-> IF st.kind = "entity" THEN counter
                         ELSE CrcInterner_new.data]
    IN  [handle |-> CrcInterner_interner(crc, lv.hash, e),
         interner |-> [st EXCEPT !.counter = counter]]

\* InternHandle::data: the stored data with the thread's entropy removed
data(h, e) == Xor(h.data, e)

\* the entity interner recording the counter it had before the call
EntityInterner_assign_storesPrevious(E, st, lv, e) ==
    LET c == Configure(st, lv, e)
    IN  IF st.kind = "entity"
        THEN AssignIntern(E, c.handle, st.counter)
        ELSE E

\* EntityInterner::interner, the part after the inner interner returned:
\* ENTITY.assign_intern(result, self.counter).  E is ENTITY before the call
\* and st the interner before it; any other interner leaves ENTITY alone.
EntityInterner_assign(E, st, lv, e) ==
    LET c == Configure(st, lv, e)
    IN  IF st.kind = "entity"
        THEN AssignIntern(E, c.handle, c.interner.counter)
        ELSE E

\* InternHandle::entity: ENTITY.copy(self).filter(|v| *v == data).map(|_| data)
entity(h, E, e) ==
    LET d == data(h, e)
        found == Copy(E, h)
    IN  IF found # None /\ found[1] = d THEN Some(d) ELSE None

\* CrcInterner::new with its digest and its queue of tags
CrcInterner_default ==
    [digest |-> Crc24Init, flags |-> CrcInterner_new.flags,
     tags |-> <<>>, data |-> CrcInterner_new.data]

\* the tags whose callback returns Err
FailingTags == {"bad"}
TagIds == {"a", "b"} \cup FailingTags

\* CrcInterner::push_tag(value, tag): value.hash(self), then tags.push
push_tag(c, value, tag) ==
    [c EXCEPT !.digest = Crc24Update(@, value), !.tags = Append(@, tag)]

\* the loop going on after a callback returned Err
RECURSIVE RunTags_runsAll(_, _, _, _)
RunTags_runsAll(tags, i, h, W) ==
    IF i > Len(tags)
    THEN [ok |-> \A k \in 1..Len(tags) : tags[k] \notin FailingTags,
          invoked |-> tags, W |-> W]
    ELSE IF tags[i] \in FailingTags
         THEN RunTags_runsAll(tags, i + 1, h, W)
         ELSE RunTags_runsAll(tags, i + 1, h, W \cup {<<tags[i], h>>})

\* the for loop of interner(): the drained tags called in order with the
\* handle, `?` leaving at the first Err.  A callback that succeeds assigns
\* its value to the handle in its table (an existing entry stays).
RECURSIVE RunTags(_, _, _, _)
RunTags(tags, i, h, W) ==
    IF i > Len(tags) THEN [ok |-> TRUE, invoked |-> tags, W |-> W]
    ELSE IF tags[i] \in FailingTags
         THEN [ok |-> FALSE, invoked |-> SubSeq(tags, 1, i), W |-> W]
         ELSE RunTags(tags, i + 1, h, W \cup {<<tags[i], h>>})

\* interner() with a finish() that leaves the digest running
CrcInterner_call_keepsDigest(c, e, W) ==
    LET handle == CrcInterner_interner(c, c.digest, e)
        r == RunTags(c.tags, 1, handle, W)
    IN  [ok |-> r.ok, handle |-> handle, invoked |-> r.invoked, W |-> r.W,
         crc |-> [c EXCEPT !.tags = <<>>]]

\* interner() iterating over the tags without draining them
CrcInterner_call_keepsTags(c, e, W) ==
    LET handle == CrcInterner_interner(c, c.digest, e)
        r == RunTags(c.tags, 1, handle, W)
    IN  [ok |-> r.ok, handle |-> handle, invoked |-> r.invoked, W |-> r.W,
         crc |-> [c EXCEPT !.digest = Crc24Init]]

\* CrcInterner::interner() as a whole: finish() takes the checksum and
\* replaces the digest, the handle is built, the tags are drained and run.
CrcInterner_call(c, e, W) ==
    LET handle == CrcInterner_interner(c, c.digest, e)
        r == RunTags(c.tags, 1, handle, W)
    IN  [ok |-> r.ok, handle |-> handle, invoked |-> r.invoked, W |-> r.W,
         crc |-> [c EXCEPT !.digest = Crc24Init, !.tags = <<>>]]

----------------------------------------------------------------------------
(* Tag<InternHandle>::link.                                                *)

\* the check of Tag::link comparing the two flags without the shift
LinkOutOfOrder_noShift(from, to) ==
    /\ level_flags(from) # 0
    /\ level_flags(from) # level_flags(to)

\* the ordering check of Tag::link: TRUE when the pair is rejected
LinkOutOfOrder(from, to) ==
    /\ level_flags(from) # 0
    /\ Shl1(level_flags(from)) # level_flags(to)

\* Tag::link failing when the key is registered already
TagLink_rejectsExisting(from, to, H) ==
    IF LinkOutOfOrder(from, to) \/ to \in DOMAIN H
    THEN [ok |-> FALSE, out |-> to, H |-> H]
    ELSE LET out == [to EXCEPT !.link = Xor32(register(from), register(to))]
         IN  [ok |-> TRUE, out |-> out, H |-> AssignIntern(H, to, out)]

\* Tag::link(from, to) against handle table H
TagLink(from, to, H) ==
    IF LinkOutOfOrder(from, to)
    THEN [ok |-> FALSE, out |-> to, H |-> H]
    ELSE LET out == [to EXCEPT !.link = Xor32(register(from), register(to))]
         IN  [ok |-> TRUE, out |-> out, H |-> AssignIntern(H, to, out)]

----------------------------------------------------------------------------
(* Linker.                                                                 *)

\* push_level comparing the two flags without the shift
PushOutOfOrder_noShift(lvls, handle) ==
    IF Len(lvls) > 0
    THEN level_flags(lvls[Len(lvls)]) # level_flags(handle)
    ELSE level_flags(handle) # ROOT

\* push_level without the check of the first level
PushOutOfOrder_anyFirst(lvls, handle) ==
    /\ Len(lvls) > 0
    /\ level_flags(lvls[Len(lvls)])
            # from_bits_truncate(Shr1(level_flags(handle)))

\* the ordering check of Linker::push_level: TRUE when the handle is rejected
PushOutOfOrder(lvls, handle) ==
    IF Len(lvls) > 0
    THEN level_flags(lvls[Len(lvls)])
            # from_bits_truncate(Shr1(level_flags(handle)))
    ELSE level_flags(handle) # ROOT

\* Linker::link: fold Tag::link over the levels from the default handle
RECURSIVE LinkFold(_, _, _, _)
LinkFold(from, lvls, i, H) ==
    IF i > Len(lvls) THEN [ok |-> TRUE, tail |-> from, H |-> H]
    ELSE LET r == TagLink(from, lvls[i], H)
         IN  IF r.ok THEN LinkFold(lvls[i], lvls, i + 1, r.H)
             ELSE [ok |-> FALSE, tail |-> from, H |-> r.H]

Linker_link(lvls, H) ==
    LET f == LinkFold(DefaultHandle, lvls, 1, H)
        tail == Copy(f.H, f.tail)
    IN  IF f.ok /\ tail # None
        THEN [ok |-> TRUE, repr |-> tail, H |-> f.H]
        ELSE [ok |-> FALSE, repr |-> None, H |-> f.H]

\* Linker::level: levels.len() - 1 on usize
Linker_level(lvls) == Len(lvls) - 1

----------------------------------------------------------------------------
(* Repr.                                                                   *)

Reverse(s) == [i \in 1..Len(s) |-> s[Len(s) + 1 - i]]

\* Repr::get_levels.  The loop keeps its cursor when the previous handle
\* is not in HANDLES, so that iteration repeats unchanged: returns = FALSE.
RECURSIVE Walk(_, _, _, _)
Walk(cursor, acc, H, e) ==
    IF cursor.prev = None
    THEN [returns |-> TRUE, levels |-> Reverse(Append(acc, cursor.current))]
    ELSE LET found == Copy(H, cursor.prev[1])
         IN  IF found = None
             THEN [returns |-> FALSE, levels |-> acc]
             ELSE Walk(node(found[1], e), Append(acc, cursor.current), H, e)

get_levels(tail, H, e) == Walk(node(tail, e), <<>>, H, e)

\* upgrade linking the new handle from the default handle, not from the tail
Repr_upgrade_fromDefault(tail, kind, lv, H, e) ==
    LET handle == Configure(NewInterner(kind), lv, e).handle
        r == TagLink(DefaultHandle, handle, H)
    IN  [ok |-> r.ok, handle |-> handle,
         tail |-> IF r.ok THEN r.out ELSE tail, H |-> r.H]

\* Repr::upgrade with a fresh interner of the given kind
Repr_upgrade(tail, kind, lv, H, e) ==
    LET handle == Configure(NewInterner(kind), lv, e).handle
        from == [tail EXCEPT !.link = Zero32]
        r == TagLink(from, handle, H)
    IN  [ok |-> r.ok, handle |-> handle,
         tail |-> IF r.ok THEN r.out ELSE tail, H |-> r.H]

\* downgrade giving the new tail the link it has in the list (none)
Repr_downgrade_keepsLink(lv, count) ==
    LET n == Len(lv) - count
    IN  IF n >= 1 THEN [ok |-> TRUE, repr |-> Some(lv[n])]
        ELSE [ok |-> FALSE, repr |-> None]

\* downgrade handing out the default Repr when no level remains
Repr_downgrade_allowsEmpty(lv, count) ==
    LET n == Len(lv) - count
    IN  IF n >= 2
        THEN [ok |-> TRUE,
              repr |-> Some([lv[n] EXCEPT
                        !.link = Xor32(register(lv[n]), register(lv[n - 1]))])]
        ELSE IF n = 1 THEN [ok |-> TRUE, repr |-> Some(lv[1])]
        ELSE IF n = 0 THEN [ok |-> TRUE, repr |-> Some(DefaultHandle)]
        ELSE [ok |-> FALSE, repr |-> None]

\* Repr::downgrade(count), from the list lv its get_levels call returned
Repr_downgrade(lv, count) ==
    LET n == Len(lv) - count
    IN  IF n >= 2
        THEN [ok |-> TRUE,
              repr |-> Some([lv[n] EXCEPT
                        !.link = Xor32(register(lv[n]), register(lv[n - 1]))])]
        ELSE IF n = 1 THEN [ok |-> TRUE, repr |-> Some(lv[1])]
        ELSE [ok |-> FALSE, repr |-> None]

----------------------------------------------------------------------------
(* Spec: Linker and Repr operations on one thread.                         *)

\* ENTROPY of a thread: 0 until set_entropy() runs on it
Entropies == {0, ThreadEntropy}

Op(name, ok) == [op |-> name, ok |-> ok]

\* nothing pushed or set since the last interner() call; prior: the flags
\* and data that call used, None on a new CrcInterner
NoHist == [pushed |-> <<>>, tags |-> <<>>, flagSet |-> FALSE,
           dataSet |-> FALSE, prior |-> None]

CrcIdle ==
    /\ cint = CrcInterner_default
    /\ hist = NoHist
    /\ results = <<>>
    /\ written = {}

\* no runtime built, no thread of the runtime model started
RuntimeIdle ==
    /\ cells = <<>>
    /\ runtimes = <<>>
    /\ workerOf = <<>>

TableIdle ==
    /\ table = None
    /\ pc = <<>>
    /\ arg = <<>>
    /\ seen = <<>>
    /\ calls = <<>>
    /\ given = <<>>

Init ==
    /\ interner = NewInterner("crc")
    /\ levels = <<>>
    /\ HANDLES = EmptyMap
    /\ entropy \in Entropies
    /\ repr = None
    /\ derived = None
    /\ last = Op("new", TRUE)
    /\ TableIdle
    /\ CrcIdle
    /\ ENTITY = EmptyMap
    /\ RuntimeIdle

\* Linker::default()
NewLinker(kind) ==
    /\ interner' = NewInterner(kind)
    /\ levels' = <<>>
    /\ last' = Op("new", TRUE)
    /\ UNCHANGED <<HANDLES, entropy, repr, tableVars, crcVars, entityVars,
                   runtimeVars, derived>>

\* push_level pushing the tag before it checks the order
PushLevel_pushesFirst(lv) ==
    /\ interner.counter < MaxCounter
    /\ LET c == Configure(interner, lv, entropy)
           rejected == PushOutOfOrder(levels, c.handle)
       IN  /\ interner' = c.interner
           /\ ENTITY' = EntityInterner_assign(ENTITY, interner, lv, entropy)
           /\ levels' = Append(levels, c.handle)
           /\ last' = Op("push_level", ~rejected)
    /\ UNCHANGED <<HANDLES, entropy, repr, tableVars, crcVars, runtimeVars,
                   derived>>

\* Linker::push_level(level)
PushLevel(lv) ==
    /\ interner.counter < MaxCounter
    /\ LET c == Configure(interner, lv, entropy)
           rejected == PushOutOfOrder(levels, c.handle)
       IN  /\ interner' = c.interner
           /\ ENTITY' = EntityInterner_assign(ENTITY, interner, lv, entropy)
           /\ levels' = IF rejected THEN levels ELSE Append(levels, c.handle)
           /\ last' = Op("push_level", ~rejected)
    /\ UNCHANGED <<HANDLES, entropy, repr, tableVars, crcVars, runtimeVars,
                   derived>>

\* Linker::link()
Link ==
    /\ LET r == Linker_link(levels, HANDLES)
       IN  /\ HANDLES' = r.H
           /\ repr' = IF r.ok THEN r.repr ELSE repr
           /\ last' = Op("link", r.ok)
    /\ UNCHANGED <<interner, levels, entropy, tableVars, crcVars, entityVars,
                   runtimeVars, derived>>

\* Repr::upgrade(interner, level) on the current Repr
Upgrade(kind, lv) ==
    /\ repr # None
    /\ LET r == Repr_upgrade(repr[1], kind, lv, HANDLES, entropy)
       IN  /\ HANDLES' = r.H
           /\ ENTITY' = EntityInterner_assign(ENTITY, NewInterner(kind), lv,
                                              entropy)
           /\ repr' = Some(r.tail)
           /\ last' = Op("upgrade", r.ok)
    /\ UNCHANGED <<interner, levels, entropy, tableVars, crcVars, runtimeVars,
                   derived>>

\* Repr::downgrade(count) on the current Repr, the result replacing it.
\* The call returns only if its get_levels does.
Downgrade(count) ==
    /\ repr # None
    /\ LET g == get_levels(repr[1], HANDLES, entropy)
           r == Repr_downgrade(g.levels, count)
       IN  /\ g.returns
           /\ repr' = IF r.ok THEN r.repr ELSE repr
           /\ last' = Op("downgrade", r.ok)
    /\ UNCHANGED <<interner, levels, HANDLES, entropy, tableVars, crcVars,
                   entityVars, runtimeVars, derived>>

\* Repr::get_levels() on the current Repr.  It changes nothing; whether it
\* returns, and what, is get_levels of the state it leaves.
GetLevels ==
    /\ repr # None
    /\ last' = Op("get_levels", TRUE)
    /\ UNCHANGED <<interner, levels, HANDLES, entropy, repr, tableVars,
                   crcVars, entityVars, runtimeVars, derived>>

\* Repr::default()
DefaultRepr ==
    /\ repr' = Some(DefaultHandle)
    /\ last' = Op("repr", TRUE)
    /\ UNCHANGED <<interner, levels, HANDLES, entropy, tableVars, crcVars,
                   entityVars, runtimeVars, derived>>

Next ==
    \/ NewLinker("crc")
    \/ \E lv \in LinkedLevels : PushLevel(lv)
    \/ Link
    \/ \E lv \in LinkedLevels : Upgrade("crc", lv)
    \/ \E count \in 0..(MaxDepth + 1) : Downgrade(count)
    \/ GetLevels
    \/ DefaultRepr

Spec == Init /\ [][Next]_vars

----------------------------------------------------------------------------
(* SpecLinker: one Linker after another, levels of every flag pushed.      *)

NextLinker ==
    \/ NewLinker("crc")
    \/ \E lv \in AllLevels : PushLevel(lv)

SpecLinker == Init /\ [][NextLinker]_vars

----------------------------------------------------------------------------
(* SpecChains: Linkers filled and linked, their Reprs walked.              *)

NextChains ==
    \/ NewLinker("crc")
    \/ \E lv \in LinkedLevels : PushLevel(lv)
    \/ Link
    \/ GetLevels

SpecChains == Init /\ [][NextChains]_vars

----------------------------------------------------------------------------
(* SpecLink: Tag::link called on pairs of handles, as lib.rs does in       *)
(* test_intern_handle_link.                                                *)

\* the handles a CrcInterner configures for the linked levels
ConfiguredHandles(e) ==
    {Configure(NewInterner("crc"), lv, e).handle : lv \in LinkedLevels}

\* Tag::new(&HANDLES, from).link(&Tag::new(&HANDLES, to))
TagLinkCall(from, to) ==
    /\ LET r == TagLink(from, to, HANDLES)
       IN  /\ HANDLES' = r.H
           /\ last' = [op |-> "tag_link", ok |-> r.ok,
                       from |-> from, to |-> to, out |-> r.out]
    /\ UNCHANGED <<interner, levels, entropy, repr, tableVars, crcVars,
                   entityVars, runtimeVars, derived>>

NextLink ==
    \E from \in ConfiguredHandles(entropy) \cup {DefaultHandle},
       to \in ConfiguredHandles(entropy) : TagLinkCall(from, to)

SpecLink == Init /\ [][NextLink]_vars

----------------------------------------------------------------------------
(* SpecEntity: Linkers over an EntityInterner, their Reprs upgraded with   *)
(* either interner and walked.                                             *)

\* one Resource level and one Field level
EntityLevels == {lv \in LevelsTo(1) : lv.hash = Checksum(1)}

NextEntity ==
    \/ NewLinker("entity")
    \/ \E lv \in EntityLevels : PushLevel(lv)
    \/ Link
    \/ \E kind \in InternerKinds, lv \in EntityLevels : Upgrade(kind, lv)
    \/ GetLevels

SpecEntity == Init /\ [][NextEntity]_vars

----------------------------------------------------------------------------
(* SpecInverse: Reprs linked by one Linker<CrcInterner> as it is filled;   *)
(* a Repr is downgraded into a second Repr, which is then upgraded once    *)
(* with either interner.                                                   *)

\* let d = repr.downgrade(count): repr is borrowed, the result is kept
\* beside it.  The call returns only if its get_levels does.
DowngradeKept(count) ==
    /\ repr # None
    /\ LET g == get_levels(repr[1], HANDLES, entropy)
           r == Repr_downgrade(g.levels, count)
       IN  /\ g.returns
           /\ derived' = r.repr
           /\ last' = [op |-> "downgrade", ok |-> r.ok, count |-> count]
    /\ UNCHANGED <<interner, levels, HANDLES, entropy, repr, tableVars,
                   crcVars, entityVars, runtimeVars>>

\* d.upgrade(interner, level) on the Repr the downgrade just returned
UpgradeDerived(kind, lv) ==
    /\ derived # None
    /\ last.op = "downgrade"
    /\ LET r == Repr_upgrade(derived[1], kind, lv, HANDLES, entropy)
       IN  /\ HANDLES' = r.H
           /\ ENTITY' = EntityInterner_assign(ENTITY, NewInterner(kind), lv,
                                              entropy)
           /\ derived' = Some(r.tail)
           /\ last' = [op |-> "upgrade", ok |-> r.ok, count |-> last.count,
                       handle |-> r.handle]
    /\ UNCHANGED <<interner, levels, entropy, repr, tableVars, crcVars,
                   runtimeVars>>

\* one level for each flag from ROOT to the deepest linked one
TierLevels == {lv \in LinkedLevels : lv.hash = Checksum(1)}

NextInverse ==
    \/ \E lv \in TierLevels : PushLevel(lv)
    \/ Link
    \/ \E count \in 0..(MaxDepth + 2) : DowngradeKept(count)
    \/ \E kind \in InternerKinds, lv \in TierLevels : UpgradeDerived(kind, lv)

SpecInverse == Init /\ [][NextInverse]_vars

----------------------------------------------------------------------------
(* SpecRelink: one Linker, over either interner, filled and linked any     *)
(* number of times.                                                        *)

\* Linker::<I>::default() for I = CrcInterner or EntityInterner<CrcInterner>
InitRelink ==
    /\ interner \in {NewInterner(kind) : kind \in InternerKinds}
    /\ levels = <<>>
    /\ HANDLES = EmptyMap
    /\ entropy \in Entropies
    /\ repr = None
    /\ derived = None
    /\ last = Op("new", TRUE)
    /\ TableIdle
    /\ CrcIdle
    /\ ENTITY = EmptyMap
    /\ RuntimeIdle

NextRelink ==
    \/ \E lv \in TierLevels : PushLevel(lv)
    \/ Link

SpecRelink == InitRelink /\ [][NextRelink]_vars

----------------------------------------------------------------------------
(* SpecIds: interners of either kind, one after another, configuring       *)
(* levels; the entity ids ENTITY holds for the handles.                    *)

NextIds ==
    \/ \E kind \in InternerKinds : NewLinker(kind)
    \/ \E lv \in EntityLevels : PushLevel(lv)
    \/ Link

SpecIds == Init /\ [][NextIds]_vars

----------------------------------------------------------------------------
(* SpecTable: threads sharing one InternTable<T>.                          *)

Threads == 1..MaxThreads
Keys == {DefaultHandle, [DefaultHandle EXCEPT !.register_lo = 1]}
Values == {"hello world", "goodbye"}

\* InternTable::inner: OnceLock::get_or_init of the watch channel
Inner(tb) == IF tb = None THEN EmptyMap ELSE tb[1]

\* send_modify whose closure starts from an empty map
SendModify_fromEmpty(m, h, v) == MapInsert(EmptyMap, h, v)

\* the send_modify closure of assign_intern on the current map
SendModify(m, h, v) == MapInsert(m, h, v)

TOp(name, h, v) == [op |-> name, ok |-> TRUE, h |-> h, v |-> v]

InitTable ==
    /\ interner = NewInterner("crc")
    /\ levels = <<>>
    /\ HANDLES = EmptyMap
    /\ entropy = 0
    /\ repr = None
    /\ derived = None
    /\ last = TOp("new", DefaultHandle, "")
    /\ table = None
    /\ pc = [t \in Threads |-> "idle"]
    /\ arg = [t \in Threads |-> None]
    /\ seen = [h \in Keys |-> {}]
    /\ calls = [h \in Keys |-> 0]
    /\ given = [h \in Keys |-> {}]
    /\ CrcIdle
    /\ ENTITY = EmptyMap
    /\ RuntimeIdle

\* assign_intern without the contains_key block
AssignCheck_noCheck(t, h, v) ==
    /\ pc[t] = "idle"
    /\ table' = Some(Inner(table))
    /\ pc' = [pc EXCEPT ![t] = "insert"]
    /\ arg' = [arg EXCEPT ![t] = Some([h |-> h, v |-> v])]
    /\ last' = TOp("check", h, v)
    /\ calls' = [calls EXCEPT ![h] = IF @ < 2 THEN @ + 1 ELSE @]
    /\ given' = [given EXCEPT ![h] = @ \cup {v}]
    /\ UNCHANGED <<linkerVars, crcVars, seen, entityVars, runtimeVars>>

\* assign_intern skipping only a value equal to the stored one
AssignCheck_replacesDiffering(t, h, v) ==
    /\ pc[t] = "idle"
    /\ LET m == Inner(table)
       IN  IF h \in DOMAIN m
           THEN /\ table' = Some(IF m[h] = v THEN m ELSE MapInsert(m, h, v))
                /\ UNCHANGED <<pc, arg>>
                /\ last' = TOp("skip", h, v)
           ELSE /\ table' = Some(m)
                /\ pc' = [pc EXCEPT ![t] = "insert"]
                /\ arg' = [arg EXCEPT ![t] = Some([h |-> h, v |-> v])]
                /\ last' = TOp("check", h, v)
    /\ calls' = [calls EXCEPT ![h] = IF @ < 2 THEN @ + 1 ELSE @]
    /\ given' = [given EXCEPT ![h] = @ \cup {v}]
    /\ UNCHANGED <<linkerVars, crcVars, seen, entityVars, runtimeVars>>

\* assign_intern(h, v), first block: the contains_key check under borrow()
AssignCheck(t, h, v) ==
    /\ pc[t] = "idle"
    /\ LET m == Inner(table)
       IN  /\ table' = Some(m)
           /\ IF h \in DOMAIN m
              THEN /\ UNCHANGED <<pc, arg>>
                   /\ last' = TOp("skip", h, v)
              ELSE /\ pc' = [pc EXCEPT ![t] = "insert"]
                   /\ arg' = [arg EXCEPT ![t] = Some([h |-> h, v |-> v])]
                   /\ last' = TOp("check", h, v)
    /\ calls' = [calls EXCEPT ![h] = IF @ < 2 THEN @ + 1 ELSE @]
    /\ given' = [given EXCEPT ![h] = @ \cup {v}]
    /\ UNCHANGED <<linkerVars, crcVars, seen, entityVars, runtimeVars>>

\* assign_intern(h, v), second block: send_modify inserts and returns Ok
AssignInsert(t) ==
    /\ pc[t] = "insert"
    /\ LET m == Inner(table)
           h == arg[t][1].h
           v == arg[t][1].v
       IN  /\ table' = Some(SendModify(m, h, v))
           /\ last' = TOp(IF h \in DOMAIN m THEN "replace" ELSE "insert", h, v)
    /\ pc' = [pc EXCEPT ![t] = "idle"]
    /\ arg' = [arg EXCEPT ![t] = None]
    /\ UNCHANGED <<linkerVars, crcVars, seen, calls, given,
                   entityVars, runtimeVars>>

\* a reader's copy / clone / strong_ref of a registered handle
Read(h) ==
    /\ LET m == Inner(table)
       IN  /\ h \in DOMAIN m
           /\ table' = Some(m)
           /\ seen' = [seen EXCEPT ![h] = @ \cup {m[h]}]
           /\ last' = TOp("read", h, m[h])
    /\ UNCHANGED <<linkerVars, crcVars, pc, arg, calls, given,
                   entityVars, runtimeVars>>

NextTable ==
    \/ \E t \in Threads, h \in Keys, v \in Values : AssignCheck(t, h, v)
    \/ \E t \in Threads : AssignInsert(t)
    \/ \E h \in Keys : Read(h)

SpecTable == InitTable /\ [][NextTable]_vars

----------------------------------------------------------------------------
(* CrcInterners driven through the InternerFactory trait.  The log of     *)
(* interner() calls holds MaxCalls calls; nothing is done after the last. *)
(*   SpecDigest   : values pushed and hashed, one flag set or not.        *)
(*   SpecInterner : flags and payloads set or left as they are.           *)
(*   SpecTags     : tags queued, some of which fail when called.          *)

\* u8 values handed to push_tag, flags to set_level_flags, payloads to set_data
PushValues == {1, 2}
SetFlags == {LEVEL_1, LEVEL_7}
Payloads == {6}

InitInterner ==
    /\ interner = NewInterner("cint")
    /\ levels = <<>>
    /\ HANDLES = EmptyMap
    /\ entropy \in Entropies
    /\ repr = None
    /\ derived = None
    /\ last = Op("new", TRUE)
    /\ TableIdle
    /\ CrcIdle
    /\ ENTITY = EmptyMap
    /\ RuntimeIdle

\* CrcInterner::default()
NewCrc ==
    /\ Len(results) < MaxCalls
    /\ cint' = CrcInterner_default
    /\ hist' = NoHist
    /\ last' = Op("crc_new", TRUE)
    /\ UNCHANGED <<linkerVars, tableVars, results, written,
                   entityVars, runtimeVars>>

\* push_tag(value, tag)
PushTag(value, tag) ==
    /\ Len(results) < MaxCalls
    /\ Len(hist.pushed) < MaxTags
    /\ cint' = push_tag(cint, value, tag)
    /\ hist' = [hist EXCEPT !.pushed = Append(@, value),
                            !.tags = Append(@, tag)]
    /\ last' = Op("push_tag", TRUE)
    /\ UNCHANGED <<linkerVars, tableVars, results, written,
                   entityVars, runtimeVars>>

\* set_level_flags(flags)
SetLevelFlags(flags) ==
    /\ Len(results) < MaxCalls
    /\ cint' = [cint EXCEPT !.flags = flags]
    /\ hist' = [hist EXCEPT !.flagSet = TRUE]
    /\ last' = Op("set_level_flags", TRUE)
    /\ UNCHANGED <<linkerVars, tableVars, results, written,
                   entityVars, runtimeVars>>

\* set_data(data)
SetData(payload) ==
    /\ Len(results) < MaxCalls
    /\ cint' = [cint EXCEPT !.data = payload]
    /\ hist' = [hist EXCEPT !.dataSet = TRUE]
    /\ last' = Op("set_data", TRUE)
    /\ UNCHANGED <<linkerVars, tableVars, results, written,
                   entityVars, runtimeVars>>

\* interner()
Interner ==
    /\ Len(results) < MaxCalls
    /\ LET r == CrcInterner_call(cint, entropy, written)
       IN  /\ cint' = r.crc
           /\ written' = r.W
           /\ results' = Append(results,
                   [pushed |-> hist.pushed, queued |-> hist.tags,
                    flags |-> cint.flags, payload |-> cint.data,
                    flagSet |-> hist.flagSet, dataSet |-> hist.dataSet,
                    prior |-> hist.prior,
                    ok |-> r.ok, handle |-> r.handle, invoked |-> r.invoked])
           /\ hist' = [NoHist EXCEPT
                   !.prior = Some([flags |-> cint.flags, payload |-> cint.data])]
           /\ last' = Op("interner", r.ok)
    /\ UNCHANGED <<linkerVars, tableVars, entityVars, runtimeVars>>

NextDigest ==
    \/ NewCrc
    \/ \E value \in PushValues : PushTag(value, "a")
    \/ SetLevelFlags(LEVEL_1)
    \/ Interner

SpecDigest == InitInterner /\ [][NextDigest]_vars

NextInterner ==
    \/ NewCrc
    \/ PushTag(1, "a")
    \/ \E flags \in SetFlags : SetLevelFlags(flags)
    \/ \E payload \in Payloads : SetData(payload)
    \/ Interner

SpecInterner == InitInterner /\ [][NextInterner]_vars

NextTags ==
    \/ NewCrc
    \/ \E tag \in TagIds : PushTag(1, tag)
    \/ Interner

SpecTags == InitInterner /\ [][NextTags]_vars

----------------------------------------------------------------------------
(* Properties of Linker::push_level.                                       *)

FlagsOf(lvls) == [i \in 1..Len(lvls) |-> level_flags(lvls[i])]

\* what the ordering rule lets through: ROOT first, then one shift per level
ExpectedPushOk(lvls, h) ==
    IF lvls = <<>> THEN level_flags(h) = ROOT
    ELSE Shl1(level_flags(lvls[Len(lvls)])) = level_flags(h)

\* C1: push_level returns Ok exactly when the Linker is empty and the
\* configured handle is a ROOT handle, or the last level's flag shifted left
\* by one is the configured handle's flag; then the handle is pushed.  A
\* LEVEL_1 level pushed right after a LEVEL_1 level is rejected.
PushLevelOrdering ==
    [][\A lv \in AllLevels :
        PushLevel(lv) =>
            LET h == Configure(interner, lv, entropy).handle
            IN  /\ last'.ok <=> ExpectedPushOk(levels, h)
                /\ last'.ok => levels' = Append(levels, h)
                /\ (/\ levels # <<>>
                    /\ level_flags(levels[Len(levels)]) = LEVEL_1
                    /\ lv.flags = LEVEL_1) => ~last'.ok]_vars

\* C1 witness: ROOT, LEVEL_1, LEVEL_2, LEVEL_3 were pushed in that order
PushedRootToLevel3 ==
    /\ last.op = "push_level"
    /\ last.ok
    /\ FlagsOf(levels) = <<ROOT, LEVEL_1, LEVEL_2, LEVEL_3>>

\* the i-th level carries ROOT << i: ROOT, LEVEL_1, ... with no gap or repeat
LevelsInOrder(lvls) ==
    /\ Len(lvls) <= 8
    /\ \A i \in 1..Len(lvls) : level_flags(lvls[i]) = LevelFlag(i - 1)

\* C2: before and after every step the i-th level a Linker holds carries
\* the flag ROOT << i, so it holds at most eight levels, ROOT to LEVEL_7,
\* and every push onto a Linker that ends in LEVEL_7 is rejected.
LevelsProgress ==
    [][/\ LevelsInOrder(levels)
       /\ LevelsInOrder(levels')
       /\ \A lv \in AllLevels :
            (/\ levels # <<>>
             /\ level_flags(levels[Len(levels)]) = LEVEL_7
             /\ PushLevel(lv)) => (~last'.ok /\ levels' = levels)]_vars

\* C2 witness: a push onto a Linker that ends in LEVEL_7 was rejected
PushAfterLevel7Rejected ==
    /\ last.op = "push_level"
    /\ ~last.ok
    /\ Len(levels) = 8
    /\ level_flags(levels[8]) = LEVEL_7

\* C3: a rejected push_level leaves the Linker's levels (and level()) as
\* they were and the next correctly ordered push succeeds; a failed upgrade
\* leaves the Repr's tail as it was.
OrderingViolationKeepsChain ==
    [][/\ (last'.op = "push_level" /\ ~last'.ok) =>
            /\ levels' = levels
            /\ Linker_level(levels') = Linker_level(levels)
       /\ (last'.op = "upgrade" /\ ~last'.ok) => repr' = repr
       /\ \A lv \in LinkedLevels :
            (/\ last.op = "push_level"
             /\ ~last.ok
             /\ PushLevel(lv)
             /\ ExpectedPushOk(levels, Configure(interner, lv, entropy).handle))
            => (last'.ok /\ Len(levels') = Len(levels) + 1)]_vars

\* C3 witness: a push was rejected by a Linker that holds levels
RejectedPushKeptChain ==
    /\ last.op = "push_level"
    /\ ~last.ok
    /\ Len(levels) >= 1

----------------------------------------------------------------------------
(* Properties of Linker::link and Repr::get_levels.                        *)

\* C4: right after link() returns Ok, get_levels() of the Repr it returned
\* is the list of handles pushed into the Linker, root first.
LinkGetLevelsRoundTrip ==
    (last.op = "link" /\ last.ok) =>
        get_levels(repr[1], HANDLES, entropy)
            = [returns |-> TRUE, levels |-> levels]

\* C5: get_levels() returns for every Repr it is called on.
GetLevelsReturns ==
    last.op = "get_levels" => get_levels(repr[1], HANDLES, entropy).returns

\* C6: the list get_levels() returns starts with a ROOT handle and each
\* flag is the one before it shifted left by one, strictly increasing.
GetLevelsFlagsIncrease ==
    LET g == get_levels(repr[1], HANDLES, entropy)
        f == FlagsOf(g.levels)
    IN  (last.op = "get_levels" /\ g.returns) =>
            /\ f[1] = ROOT
            /\ \A i \in 1..(Len(f) - 1) :
                    f[i + 1] = Shl1(f[i]) /\ f[i] < f[i + 1]

----------------------------------------------------------------------------
(* Properties of InternTable::assign_intern.                               *)

\* C7: assign_intern(h, v) on a table that holds a value for h returns Ok
\* at once and changes nothing: the stored value stays, equal to v or not.
AssignExistingIsNoOp ==
    [][\A t \in Threads, h \in Keys, v \in Values :
        (AssignCheck(t, h, v) /\ h \in DOMAIN Inner(table)) =>
            /\ table' = table
            /\ pc'[t] = "idle"]_vars

\* C7 witness: a value was assigned to a handle that already held it
AssignedSameValueTwice ==
    /\ last.op = "skip"
    /\ Inner(table)[last.h] = last.v

\* C8 as stated: assigning a differing value to a handle that holds one
\* overwrites the entry.
AssignDifferingOverwrites ==
    [][\A t \in Threads, h \in Keys, v \in Values :
        (/\ AssignCheck(t, h, v)
         /\ h \in DOMAIN Inner(table)
         /\ Inner(table)[h] # v) => Inner(table')[h] = v]_vars

\* C8 amended: assigning a differing value v2 to a handle that holds v1
\* writes nothing: the call returns Ok and the entry still holds v1.
AssignDifferingKeepsExisting ==
    [][\A t \in Threads, h \in Keys, v \in Values :
        (/\ AssignCheck(t, h, v)
         /\ h \in DOMAIN Inner(table)
         /\ Inner(table)[h] # v) =>
            /\ Inner(table')[h] = Inner(table)[h]
            /\ pc'[t] = "idle"]_vars

\* C8 witness: a differing value was assigned and the stored one stayed
AssignedDifferingValue ==
    /\ last.op = "skip"
    /\ Inner(table)[last.h] # last.v

\* C9: all the values readers have observed for one handle are the same.
ReadersSeeOneValue ==
    \A h \in Keys : Cardinality(seen[h]) <= 1

\* C10: once every call has returned, a handle that exactly one call was
\* made on is in the table with the value that call supplied.
NoInsertLost ==
    (\A t \in Threads : pc[t] = "idle") =>
        \A h \in Keys :
            calls[h] = 1 => /\ h \in DOMAIN Inner(table)
                            /\ given[h] = {Inner(table)[h]}

\* C10 witness: two handles, one call each, both inserted
DistinctHandlesInserted ==
    /\ \A t \in Threads : pc[t] = "idle"
    /\ \A h \in Keys : calls[h] = 1 /\ h \in DOMAIN Inner(table)
    /\ last.op = "insert"

----------------------------------------------------------------------------
(* Properties of CrcInterner::interner.                                    *)

\* C11: two interner() calls that follow the same ordered pushes under the
\* same level flag return handles with the same level flags and the same
\* register, whatever was configured on the interner before.
InternerDeterministic ==
    \A i, j \in 1..Len(results) :
        (/\ results[i].pushed = results[j].pushed
         /\ results[i].flags = results[j].flags) =>
            /\ register(results[i].handle) = register(results[j].handle)
            /\ level_flags(results[i].handle) = level_flags(results[j].handle)

\* C11 witness: the same values were pushed before the first and before
\* the second interner() call of one interner
SameConstructionTwice ==
    /\ Len(results) = 2
    /\ results[2].prior # None
    /\ results[1].pushed = results[2].pushed
    /\ Len(results[1].pushed) = MaxTags
    /\ results[1].flags = results[2].flags

\* the flag each concrete level sets in its configure
ConcreteLevels ==
    [Resource |-> ROOT, Field |-> LEVEL_1, Node |-> LEVEL_2, Host |-> LEVEL_3]

\* C12: a handle returned by interner() has link 0, exactly the level flag
\* the interner was given, the checksum in register_lo and the low byte of
\* register_hi, and data() equal to the payload; the handles of Resource,
\* Field, Node and Host levels carry ROOT, LEVEL_1, LEVEL_2 and LEVEL_3.
InternerHandleFields ==
    /\ \A i \in 1..Len(results) :
        LET h == results[i].handle
        IN  /\ h.link = Zero32
            /\ level_flags(h) = results[i].flags
            /\ h.register_hi - level_flags(h) < 256
            /\ data(h, entropy) = results[i].payload
    /\ \A n \in DOMAIN ConcreteLevels, k \in InternerKinds, i \in {1, 2} :
        LET lv == [flags |-> ConcreteLevels[n], hash |-> Checksum(i)]
            h == Configure(NewInterner(k), lv, entropy).handle
        IN  /\ level_flags(h) = ConcreteLevels[n]
            /\ h.link = Zero32
    /\ ConcreteLevels = [Resource |-> LevelFlag(0), Field |-> LevelFlag(1),
                         Node |-> LevelFlag(2), Host |-> LevelFlag(3)]

\* C12 witness: LEVEL_7 and a payload were set, values pushed, and the
\* handle made on a thread whose entropy is set
HandleWithFlagAndPayload ==
    /\ last.op = "interner"
    /\ entropy = ThreadEntropy
    /\ LET r == results[Len(results)]
       IN  /\ r.flagSet /\ r.flags = LEVEL_7
           /\ r.dataSet /\ r.payload # 0
           /\ r.pushed # <<>>

\* C13: an interner() call made without a new set_level_flags / set_data
\* does not stamp the flag or the payload of the call before it on its
\* handle.
FlagsAndDataNotSticky ==
    \A i \in 1..Len(results) :
        LET r == results[i]
        IN  r.prior # None =>
                /\ (~r.flagSet /\ r.prior[1].flags # CrcInterner_new.flags)
                        => level_flags(r.handle) # r.prior[1].flags
                /\ (~r.dataSet /\ r.prior[1].payload # CrcInterner_new.data)
                        => data(r.handle, entropy) # r.prior[1].payload

\* the callbacks a call runs: the queue up to its first failing tag
RECURSIVE UpToFirstFailure(_, _)
UpToFirstFailure(tags, i) ==
    IF i > Len(tags) THEN tags
    ELSE IF tags[i] \in FailingTags THEN SubSeq(tags, 1, i)
    ELSE UpToFirstFailure(tags, i + 1)

HasFailure(tags) == \E k \in 1..Len(tags) : tags[k] \in FailingTags

\* C14 as stated: every interner() call invokes every callback queued since
\* the call before, once each and in push order, and leaves the queue empty.
EveryTagInvokedOnce ==
    /\ \A i \in 1..Len(results) : results[i].invoked = results[i].queued
    /\ last.op = "interner" => cint.tags = <<>>

\* C14 amended: every interner() call invokes the callbacks queued since the
\* call before in push order, once each, with the finished handle, up to and
\* including the first one that fails (all of them when none fails); the
\* queue holds the tags pushed since the last call and nothing else, so it
\* is empty when interner() returns.
TagsInvokedUpToFailure ==
    /\ \A i \in 1..Len(results) :
        LET r == results[i]
        IN  /\ r.invoked = UpToFirstFailure(r.queued, 1)
            /\ ~HasFailure(r.queued) => r.invoked = r.queued
            /\ \A k \in 1..Len(r.invoked) :
                    r.invoked[k] \notin FailingTags
                        => <<r.invoked[k], r.handle>> \in written
    /\ cint.tags = hist.tags
    /\ last.op = "interner" => cint.tags = <<>>

\* C14 witness: a second interner() call ran both of its tags, after a
\* first call that had run its own
TwoCallsRanTheirTags ==
    /\ Len(results) = 2
    /\ results[2].prior # None
    /\ results[1].queued = <<"b", "a">>
    /\ results[2].queued = <<"a", "b">>
    /\ results[2].invoked = <<"a", "b">>

\* C15: an interner() call with a failing callback returns Err, runs no
\* callback queued after the first failing one (later calls run their own
\* queue only), and the entries written by the callbacks before it stay.
CallbackFailureAborts ==
    \A i \in 1..Len(results) :
        LET r == results[i]
        IN  /\ r.ok <=> ~HasFailure(r.queued)
            /\ HasFailure(r.queued) =>
                /\ r.invoked # <<>>
                /\ r.invoked[Len(r.invoked)] \in FailingTags
                /\ \A k \in 1..(Len(r.invoked) - 1) :
                    /\ r.invoked[k] \notin FailingTags
                    /\ <<r.invoked[k], r.handle>> \in written
                /\ \A j \in (i + 1)..Len(results) :
                    Len(results[j].invoked) <= Len(results[j].queued)
            /\ \A k \in 1..Len(r.invoked) : r.invoked[k] = r.queued[k]

\* C15 witness: a callback failed after one that had written; the next
\* call on the same interner stopped at its failing tag, before another
FailedBetweenTwoTags ==
    /\ Len(results) = 2
    /\ results[2].prior # None
    /\ results[1].queued = <<"a", "bad">>
    /\ ~results[1].ok
    /\ results[2].queued = <<"bad", "b">>
    /\ results[2].invoked = <<"bad">>

----------------------------------------------------------------------------
(* Properties of Tag::link, InternHandle::node and Repr::upgrade.          *)

\* the handle Tag::link(from, to) is to return
Linked(from, to) == [to EXCEPT !.link = Xor32(register(from), register(to))]

\* C16: Tag::link(from, to) fails exactly when from has a level flag and
\* that flag shifted left by one is not to's flag, and then leaves HANDLES
\* as it was; otherwise it returns to with link = from.register() XOR
\* to.register(), and HANDLES maps to to that handle.
TagLinkRegisters ==
    [][\A from \in ConfiguredHandles(entropy) \cup {DefaultHandle},
          to \in ConfiguredHandles(entropy) :
        TagLinkCall(from, to) =>
            /\ last'.ok <=> ~(/\ level_flags(from) # 0
                              /\ Shl1(level_flags(from)) # level_flags(to))
            /\ ~last'.ok => HANDLES' = HANDLES
            /\ last'.ok => /\ last'.out = Linked(from, to)
                           /\ to \in DOMAIN HANDLES'
                           /\ HANDLES'[to] = last'.out]_vars

\* C17: node() of the handle link(a, b) returned yields a previous handle
\* exactly when a's level flag is b's level flag shifted right by one, its
\* register then being a's register; the current handle it yields is b with
\* the link cleared.
UnlinkInvertsLink ==
    (last.op = "tag_link" /\ last.ok) =>
        LET n == node(last.out, entropy)
        IN  /\ n.current = [last.to EXCEPT !.link = Zero32]
            /\ n.current.link = Zero32
            /\ n.prev # None
                <=> level_flags(last.from) = Shr1(level_flags(last.to))
            /\ n.prev # None =>
                /\ register(n.prev[1]) = register(last.from)
                /\ n.prev[1].register_hi = last.from.register_hi
                /\ n.prev[1].register_lo = last.from.register_lo

\* C17 witness: a ROOT handle was linked to a LEVEL_1 handle, and the zero
\* handle has been linked to a ROOT handle before
LinkedRootToLevel1 ==
    /\ last.op = "tag_link"
    /\ last.ok
    /\ level_flags(last.from) = ROOT
    /\ level_flags(last.to) = LEVEL_1
    /\ node(last.out, entropy).prev # None
    /\ \E h \in DOMAIN HANDLES : is_root(h) /\ HANDLES[h].link = register(h)

\* C18: the tail of the Repr that link() returns for a Linker of one root
\* level has link 0, so is_node() is false for it; is_node() holds only of
\* a tail that has a previous level.
RootTailHasNoLink ==
    (last.op = "link" /\ last.ok) =>
        /\ Len(levels) = 1 => (repr[1].link = Zero32 /\ ~is_node(repr[1]))
        /\ is_node(repr[1]) => node(repr[1], entropy).prev # None

\* what push_level requires of the next flag, asked of a Repr's tail
ExpectedUpgradeOk(tail, h) ==
    IF tail = DefaultHandle THEN level_flags(h) = ROOT
    ELSE Shl1(level_flags(tail)) = level_flags(h)

\* C19: upgrade returns Ok exactly when the new level's flag is the tail's
\* flag shifted left by one, or, on Repr::default(), when it is ROOT.
UpgradeValidatesLikePush ==
    [][\A lv \in LinkedLevels :
        Upgrade("crc", lv) =>
            (last'.ok <=> ExpectedUpgradeOk(repr[1],
                            Configure(NewInterner("crc"), lv, entropy).handle))
      ]_vars

\* C20: a successful upgrade of the Repr that link() just returned appends
\* the configured handle to what get_levels() returned before.
UpgradeAppendsLevel ==
    [][\A kind \in InternerKinds, lv \in EntityLevels :
        (/\ last.op = "link" /\ last.ok
         /\ get_levels(repr[1], HANDLES, entropy).returns
         /\ Upgrade(kind, lv)
         /\ last'.ok) =>
            get_levels(repr'[1], HANDLES', entropy)
                = [returns |-> TRUE,
                   levels |-> Append(get_levels(repr[1], HANDLES, entropy).levels,
                                Configure(NewInterner(kind), lv, entropy).handle)]
      ]_vars

----------------------------------------------------------------------------
(* Properties of Repr::downgrade.                                          *)

\* C21: downgrade(count) of a Repr whose get_levels() is [h0, ..., hn], with
\* count <= n, returns a Repr whose get_levels() is [h0, ..., h(n-count)];
\* its tail is the last remaining level with the link derived from the
\* registers of the last two remaining levels, or h0 itself when it is the
\* only level left.  The Repr it was called on still has its levels.
DowngradeReturnsPrefix ==
    last.op = "downgrade" =>
        LET g == get_levels(repr[1], HANDLES, entropy)
            n == Len(g.levels) - 1
            m == n + 1 - last.count
        IN  /\ g.returns
            /\ last.count <= n =>
                /\ last.ok
                /\ derived # None
                /\ get_levels(derived[1], HANDLES, entropy)
                    = [returns |-> TRUE, levels |-> SubSeq(g.levels, 1, m)]
                /\ derived[1] =
                    IF m >= 2
                    THEN [g.levels[m] EXCEPT !.link =
                            Xor32(register(g.levels[m]),
                                  register(g.levels[m - 1]))]
                    ELSE g.levels[1]

\* C21 witness: a Repr of three levels was downgraded by one, and the
\* result walks back over two levels
DowngradedThreeToTwo ==
    /\ last.op = "downgrade"
    /\ last.ok
    /\ last.count = 1
    /\ Len(get_levels(repr[1], HANDLES, entropy).levels) = 3
    /\ Len(get_levels(derived[1], HANDLES, entropy).levels) = 2
    /\ is_node(derived[1])

\* C22: downgrade(count) returns an error exactly when count exceeds the
\* level of the Repr (the number of its levels minus one); the Repr a
\* successful downgrade returns has at least one level.
DowngradeFailsBeyondLevel ==
    last.op = "downgrade" =>
        LET g == get_levels(repr[1], HANDLES, entropy).levels
        IN  /\ last.ok <=> last.count <= Len(g) - 1
            /\ ~last.ok => derived = None
            /\ last.ok =>
                /\ derived # None
                /\ derived[1] # DefaultHandle
                /\ get_levels(derived[1], HANDLES, entropy).returns
                /\ Len(get_levels(derived[1], HANDLES, entropy).levels) >= 1

\* C22 witness: a downgrade by exactly the number of levels, and one by
\* more than that, are refused (here: the former)
DowngradeByAllLevelsRefused ==
    /\ last.op = "downgrade"
    /\ ~last.ok
    /\ derived = None
    /\ last.count = Len(get_levels(repr[1], HANDLES, entropy).levels)
    /\ last.count >= 2

\* C23: after downgrade(1) of a Repr of three levels, an upgrade with a
\* level whose handle has the register of the removed level succeeds, and
\* the upgraded Repr has three levels again: the first two are those of the
\* original Repr and the third has the register of the removed one.
DowngradeUpgradeInverse ==
    LET g == get_levels(repr[1], HANDLES, entropy)
    IN  (/\ last.op = "upgrade"
         /\ last.count = 1
         /\ g.returns
         /\ Len(g.levels) = 3
         /\ register(last.handle) = register(g.levels[3])) =>
            LET g2 == get_levels(derived[1], HANDLES, entropy)
            IN  /\ last.ok
                /\ g2.returns
                /\ Len(g2.levels) = 3
                /\ g2.levels[1] = g.levels[1]
                /\ g2.levels[2] = g.levels[2]
                /\ register(g2.levels[3]) = register(g.levels[3])

\* C23 witness: the level a downgrade(1) took off a Repr of three levels
\* was put back by an upgrade with an EntityInterner
RemovedLevelPutBack ==
    /\ last.op = "upgrade"
    /\ last.ok
    /\ last.count = 1
    /\ LET g == get_levels(repr[1], HANDLES, entropy).levels
           g2 == get_levels(derived[1], HANDLES, entropy).levels
       IN  /\ Len(g) = 3
           /\ Len(g2) = 3
           /\ register(g2[3]) = register(g[3])
           /\ g2[3] # g[3]

----------------------------------------------------------------------------
(* Properties of Linker::link called again, and of entity ids.             *)

\* C24: link() called again on a Linker, with no push_level since the last
\* link(), returns what that call returned: Ok and an equal Repr whenever
\* the Linker holds a level, and it leaves HANDLES as it is.
RelinkSameRepr ==
    [][(last.op = "link" /\ Link) =>
            /\ last'.ok = last.ok
            /\ levels # <<>> => (last.ok /\ last'.ok)
            /\ last.ok => repr' = repr
            /\ HANDLES' = HANDLES
      ]_vars

\* C24 witness: a Linker over an EntityInterner holding two levels has been
\* linked
LinkedEntityLinker ==
    /\ last.op = "link"
    /\ last.ok
    /\ interner.kind = "entity"
    /\ Len(levels) = 2
    /\ repr # None
    /\ Linker_link(levels, HANDLES) = [ok |-> TRUE, repr |-> repr, H |-> HANDLES]

\* C25: every handle an EntityInterner returns has an entity id that is not
\* 0 and that no other handle created before it has, whichever
\* EntityInterner instance created that one.
EntityIdsDistinct ==
    [][\A lv \in EntityLevels :
        (interner.kind = "entity" /\ PushLevel(lv)) =>
            LET h == Configure(interner, lv, entropy).handle
                id == entity(h, ENTITY', entropy)
            IN  /\ id # None
                /\ id[1] # 0
                /\ \A k \in DOMAIN ENTITY \ {h} :
                        entity(k, ENTITY, entropy) # id
      ]_vars

ReprEntityOfTail ==
    (last.op = "link" /\ last.ok /\ interner.kind = "entity") =>
        LET tailLevel == levels[Len(levels)]
        IN  /\ entity(repr[1], ENTITY, entropy)
                = entity(tailLevel, ENTITY, entropy)
            /\ entity(repr[1], ENTITY, entropy) # None
            /\ entity(repr[1], ENTITY, entropy) # Some(0)

----------------------------------------------------------------------------
(* entropy.rs: the thread-local ENTROPY cell, set_entropy() and            *)
(* new_runtime().  Thread 0 is the thread the program starts on; the       *)
(* others are worker threads that runtimes start.                          *)

MainThread == 0
Workers == 1..MaxWorkers
RtThreads == {MainThread} \cup Workers

\* Uuid::new_v4().as_u64_pair().1: a random u64, never 0 (variant bits)
DrawnEntropies == {ThreadEntropy, 2 * ThreadEntropy}

\* a worker starting with ENTROPY's initial value, nothing propagated
on_thread_start_default(rt) == Some(0)

\* the closure new_runtime() gives to on_thread_start: ENTROPY.set(entropy)
\* on the starting thread, entropy being the value captured by the builder
on_thread_start(rt) == Some(rt.entropy)

ThreadOp(name, t) == [op |-> name, ok |-> TRUE, thread |-> t]

InitRuntime ==
    /\ interner = NewInterner("crc")
    /\ levels = <<>>
    /\ HANDLES = EmptyMap
    /\ entropy = 0
    /\ repr = None
    /\ derived = None
    /\ last = ThreadOp("new", MainThread)
    /\ TableIdle
    /\ CrcIdle
    /\ ENTITY = EmptyMap
    /\ cells = [t \in RtThreads |-> IF t = MainThread THEN Some(0) ELSE None]
    /\ runtimes = <<>>
    /\ workerOf = [w \in Workers |-> None]

\* set_entropy() called on the running thread t, drawing e
SetEntropy(t, e) ==
    /\ cells[t] # None
    /\ cells' = [cells EXCEPT ![t] = Some(e)]
    /\ last' = ThreadOp("set_entropy", t)
    /\ UNCHANGED <<linkerVars, tableVars, crcVars, entityVars, runtimes,
                   workerOf>>

\* new_runtime() called on the running thread t: set_entropy() draws e, the
\* builder returned captures e in its on_thread_start closure
NewRuntime(t, e) ==
    /\ cells[t] # None
    /\ Len(runtimes) < MaxRuntimes
    /\ cells' = [cells EXCEPT ![t] = Some(e)]
    /\ runtimes' = Append(runtimes, [entropy |-> e])
    /\ last' = ThreadOp("new_runtime", t)
    /\ UNCHANGED <<linkerVars, tableVars, crcVars, entityVars, workerOf>>

\* the runtime built from builder i starts worker thread w: the thread's
\* on_thread_start callback runs before any work is scheduled on it
WorkerStart(w, i) ==
    /\ cells[w] = None
    /\ i \in DOMAIN runtimes
    /\ cells' = [cells EXCEPT ![w] = on_thread_start(runtimes[i])]
    /\ workerOf' = [workerOf EXCEPT ![w] = Some(i)]
    /\ last' = ThreadOp("thread_start", w)
    /\ UNCHANGED <<linkerVars, tableVars, crcVars, entityVars, runtimes>>

NextRuntime ==
    \/ \E t \in RtThreads, e \in DrawnEntropies : SetEntropy(t, e)
    \/ \E t \in RtThreads, e \in DrawnEntropies : NewRuntime(t, e)
    \/ \E w \in Workers, i \in 1..MaxRuntimes : WorkerStart(w, i)

SpecRuntime == InitRuntime /\ [][NextRuntime]_vars

\* C28: new_runtime() draws one value, leaves it in the calling thread's
\* cell and in the builder, where it never changes; a worker thread starts
\* with the value of the builder its runtime was built from; and the cell of
\* a running thread is changed only by an operation that thread runs.
RuntimeEntropyScoped ==
    [][/\ last'.op = "new_runtime" =>
            /\ Len(runtimes') = Len(runtimes) + 1
            /\ runtimes'[Len(runtimes')].entropy # 0
            /\ cells'[last'.thread]
                = Some(runtimes'[Len(runtimes')].entropy)
       /\ \A i \in DOMAIN runtimes :
            i \in DOMAIN runtimes' /\ runtimes'[i] = runtimes[i]
       /\ \A w \in Workers :
            (cells[w] = None /\ cells'[w] # None) =>
                /\ workerOf'[w] # None
                /\ cells'[w] = Some(runtimes[workerOf'[w][1]].entropy)
       /\ \A t \in RtThreads :
            (cells[t] # None /\ cells'[t] # cells[t]) =>
                /\ last'.thread = t
                /\ last'.op \in {"set_entropy", "new_runtime"}
      ]_vars

\* C28 witness: two runtimes with different entropies each started a
\* worker, and the thread that built the second one still has its entropy
TwoRuntimesTwoScopes ==
    /\ Len(runtimes) = 2
    /\ runtimes[1].entropy # runtimes[2].entropy
    /\ workerOf[1] = Some(1)
    /\ workerOf[2] = Some(2)
    /\ cells[1] = Some(runtimes[1].entropy)
    /\ cells[2] = Some(runtimes[2].entropy)
    /\ cells[MainThread] = cells[2]
    /\ last.op = "thread_start"

----------------------------------------------------------------------------
(* SpecLookup: one thread assigning to and reading from an InternTable<T>. *)

LookupKeys == Keys \cup {[DefaultHandle EXCEPT !.register_lo = 2]}

\* get answering Ok with an empty weak reference for a handle not interned
Table_get_neverFails(m, h) ==
    [ok |-> TRUE, weak |-> <<h, IF h \in DOMAIN m THEN m[h] ELSE "">>]

\* InternTable::get: a Weak to the Arc the map holds for the handle, or the
\* error "Not interned"
Table_get(m, h) ==
    IF h \in DOMAIN m
    THEN [ok |-> TRUE, weak |-> <<h, m[h]>>]
    ELSE [ok |-> FALSE, err |-> "Not interned"]

\* Weak::upgrade: Some while the Arc the map holds is the one referred to
Weak_upgrade(m, w) ==
    IF w[1] \in DOMAIN m /\ m[w[1]] = w[2] THEN Some(w[2]) ELSE None

\* InternTable::clone: get(handle).ok().and_then(Weak::upgrade).cloned()
Table_clone(m, h) ==
    LET g == Table_get(m, h)
    IN  IF g.ok THEN Weak_upgrade(m, g.weak) ELSE None

\* InternTable::strong_ref: get(handle).ok().and_then(Weak::upgrade)
Table_strong_ref(m, h) ==
    LET g == Table_get(m, h)
    IN  IF g.ok THEN Weak_upgrade(m, g.weak) ELSE None

LOp(name, h, ok, out) == [op |-> name, ok |-> ok, h |-> h, out |-> out]

InitLookup ==
    /\ interner = NewInterner("crc")
    /\ levels = <<>>
    /\ HANDLES = EmptyMap
    /\ entropy = 0
    /\ repr = None
    /\ derived = None
    /\ last = LOp("new", DefaultHandle, TRUE, None)
    /\ TableIdle
    /\ CrcIdle
    /\ ENTITY = EmptyMap
    /\ RuntimeIdle

lookupFrame == <<linkerVars, crcVars, pc, arg, seen, calls, given,
                 entityVars, runtimeVars>>

\* assign_intern(h, v) run to its return
LookupAssign(h, v) ==
    /\ table' = Some(AssignIntern(Inner(table), h, v))
    /\ last' = LOp("assign_intern", h, TRUE, None)
    /\ UNCHANGED lookupFrame

\* get(&h), the caller upgrading the Weak of an Ok result at once
LookupGet(h) ==
    /\ LET m == Inner(table)
           g == Table_get(m, h)
       IN  /\ table' = Some(m)
           /\ last' = LOp("get", h, g.ok,
                          IF g.ok THEN Weak_upgrade(m, g.weak) ELSE None)
    /\ UNCHANGED lookupFrame

\* copy(&h)
LookupCopy(h) ==
    /\ LET m == Inner(table)
       IN  /\ table' = Some(m)
           /\ last' = LOp("copy", h, TRUE, Copy(m, h))
    /\ UNCHANGED lookupFrame

\* clone(&h)
LookupClone(h) ==
    /\ LET m == Inner(table)
       IN  /\ table' = Some(m)
           /\ last' = LOp("clone", h, TRUE, Table_clone(m, h))
    /\ UNCHANGED lookupFrame

\* strong_ref(&h)
LookupStrongRef(h) ==
    /\ LET m == Inner(table)
       IN  /\ table' = Some(m)
           /\ last' = LOp("strong_ref", h, TRUE, Table_strong_ref(m, h))
    /\ UNCHANGED lookupFrame

NextLookup ==
    \/ \E h \in LookupKeys, v \in Values : LookupAssign(h, v)
    \/ \E h \in LookupKeys : LookupGet(h)
    \/ \E h \in LookupKeys : LookupCopy(h)
    \/ \E h \in LookupKeys : LookupClone(h)
    \/ \E h \in LookupKeys : LookupStrongRef(h)

SpecLookup == InitLookup /\ [][NextLookup]_vars

LookupOps == {"get", "copy", "clone", "strong_ref"}

\* C29: a lookup leaves the table's entries as they were.  For a handle
\* with no entry, get returns the error and copy, clone and strong_ref
\* return None; for a handle with an entry all four return the stored
\* value, and a lookup that follows a lookup of the same handle returns
\* what that one returned.
LookupOfUnregisteredRecoverable ==
    [][last'.op \in LookupOps =>
        LET m == Inner(table)
            h == last'.h
        IN  /\ Inner(table') = m
            /\ h \notin DOMAIN m =>
                /\ last'.out = None
                /\ last'.op = "get" => ~last'.ok
            /\ h \in DOMAIN m =>
                /\ last'.out = Some(m[h])
                /\ last'.ok
            /\ (last.op \in LookupOps /\ last.h = h) =>
                last'.out = last.out
      ]_vars

\* C29 witness: get has just failed for a handle that has no entry, in a
\* table that holds entries for the other handles
LookupMissed ==
    /\ last.op = "get"
    /\ ~last.ok
    /\ last.out = None
    /\ last.h \notin DOMAIN Inner(table)
    /\ DOMAIN Inner(table) = LookupKeys \ {last.h}

----------------------------------------------------------------------------
(* SpecU64: handles and Reprs converted to u64 and back on one thread,     *)
(* whose entropy set_entropy() may change between the calls.               *)

\* the u16 words the u64 inputs are made of
U16Samples == {0, U16 - 1}
U64Inputs == {<<a, b, c, d>> : a, b, c, d \in U16Samples}

FromOp(name, v, src, h) ==
    [op |-> name, ok |-> TRUE, v |-> v, src |-> src, handle |-> h]

\* set_entropy() on the running thread (new_runtime() calls it), drawing e
SetThreadEntropy(e) ==
    /\ entropy # e
    /\ entropy' = e
    /\ last' = Op("set_entropy", TRUE)
    /\ UNCHANGED <<interner, levels, HANDLES, repr, derived, tableVars,
                   crcVars, entityVars, runtimeVars>>

\* InternHandle::from(v)
HandleFromU64(v) ==
    /\ last' = FromOp("from_u64", v, None, FromU64(v, entropy))
    /\ UNCHANGED <<linkerVars, tableVars, crcVars, entityVars, runtimeVars>>

\* InternHandle::from(h.as_u64()), h a level handle of the Linker
HandleFromAsU64(i) ==
    /\ i \in DOMAIN levels
    /\ last' = FromOp("handle_from", as_u64(levels[i]), Some(levels[i]),
                      FromU64(as_u64(levels[i]), entropy))
    /\ UNCHANGED <<linkerVars, tableVars, crcVars, entityVars, runtimeVars>>

\* Repr::from(r.as_u64()), r the Repr link() returned
ReprFromAsU64 ==
    /\ repr # None
    /\ last' = FromOp("repr_from", as_u64(repr[1]), repr,
                      FromU64(as_u64(repr[1]), entropy))
    /\ UNCHANGED <<linkerVars, tableVars, crcVars, entityVars, runtimeVars>>

NextU64 ==
    \/ \E lv \in TierLevels : PushLevel(lv)
    \/ Link
    \/ \E e \in DrawnEntropies : SetThreadEntropy(e)
    \/ \E v \in U64Inputs : HandleFromU64(v)
    \/ \E i \in 1..(MaxDepth + 1) : HandleFromAsU64(i)
    \/ ReprFromAsU64

SpecU64 == Init /\ [][NextU64]_vars

SameTriple(g, h) ==
    /\ g.link = h.link
    /\ g.register_hi = h.register_hi
    /\ g.register_lo = h.register_lo

\* what holds of both conversions whatever the thread's entropy is:
\* from(v).as_u64() is v, and from(h.as_u64()) has the triple of h and the
\* thread's entropy as its data
U64KeepsTriple ==
    /\ last.op = "from_u64" =>
        /\ as_u64(last.handle) = last.v
        /\ last.handle.data = entropy
    /\ last.op \in {"handle_from", "repr_from"} =>
        /\ SameTriple(last.handle, last.src[1])
        /\ last.v = as_u64(last.src[1])
        /\ last.handle.data = entropy

----------------------------------------------------------------------------
(* SpecNode: NodeLevels configured through a CrcInterner, their tags       *)
(* assigning to the intern tables of repr/node.rs.  `written` holds the    *)
(* entries of those tables as (table, handle, value).                      *)

\* the fields of NodeLevel, each an Option<Tag<..>> over its own table
NodeAttrs == {"symbol", "input", "tag", "path", "idx", "bidx", "source",
              "doc_headers", "annotations", "span", "relative"}

\* the fields NodeLevel::configure pushes, in the order it pushes them
NodePushOrder == <<"symbol", "input", "tag", "path", "idx", "doc_headers",
                   "source", "annotations", "span", "relative">>

\* attribute values, each hashed as one byte
AttrValues == {1, 2}
\* the fields the sampled levels set
SampledAttrs == {"symbol", "input", "bidx"}
NodeLevels ==
    {lv \in [NodeAttrs -> {None} \cup {Some(v) : v \in AttrValues}] :
        \A a \in NodeAttrs \ SampledAttrs : lv[a] = None}

\* the table's entry for handle h, None when there is none
TableEntry(W, a, h) ==
    IF \E e \in W : e[1] = a /\ e[2] = h
    THEN Some((CHOOSE e \in W : e[1] = a /\ e[2] = h)[3])
    ELSE None

\* Tag::assign(h): assign_intern(h, value) on the tag's table
Tag_assign(W, a, h, v) ==
    IF TableEntry(W, a, h) # None THEN W ELSE W \cup {<<a, h, v>>}

\* the push_tag! calls of NodeLevel::configure from field i on
RECURSIVE NodeLevel_push(_, _, _)
NodeLevel_push(lv, i, c) ==
    IF i > Len(NodePushOrder) THEN c
    ELSE LET a == NodePushOrder[i]
         IN  NodeLevel_push(lv, i + 1,
                 IF lv[a] = None THEN c ELSE push_tag(c, lv[a][1], a))

\* the drained tag callbacks run with the finished handle
RECURSIVE NodeLevel_assign(_, _, _, _, _)
NodeLevel_assign(lv, tags, i, h, W) ==
    IF i > Len(tags) THEN W
    ELSE NodeLevel_assign(lv, tags, i + 1, h,
             Tag_assign(W, tags[i], h, lv[tags[i]][1]))

\* NodeLevel::configure(&mut CrcInterner::default())
NodeLevel_configure(lv, e, W) ==
    LET pushed == NodeLevel_push(lv, 1, CrcInterner_default)
        c == [pushed EXCEPT !.flags = LEVEL_2]
        handle == CrcInterner_interner(c, c.digest, e)
    IN  [ok |-> TRUE, handle |-> handle,
         W |-> NodeLevel_assign(lv, c.tags, 1, handle, W)]

ConfigureNode(lv) ==
    /\ Len(results) < MaxNodes
    /\ LET r == NodeLevel_configure(lv, entropy, written)
       IN  /\ written' = r.W
           /\ results' = Append(results, [level |-> lv, handle |-> r.handle])
           /\ last' = [op |-> "configure", ok |-> r.ok, level |-> lv,
                       handle |-> r.handle]
    /\ UNCHANGED <<linkerVars, tableVars, cint, hist, entityVars, runtimeVars>>

NextNode == \E lv \in NodeLevels : ConfigureNode(lv)

SpecNode == Init /\ [][NextNode]_vars

\* C31: after NodeLevel::configure returned handle h, every attribute set
\* on the level is stored in that attribute's table under h with the value
\* set on the level.
ConfiguredAttributesStored ==
    (last.op = "configure" /\ last.ok) =>
        \A a \in NodeAttrs :
            last.level[a] # None =>
                TableEntry(written, a, last.handle) = last.level[a]

----------------------------------------------------------------------------
(* SpecExport: one thread assigning to an InternTable<T> and exporting its *)
(* InternMap.  A value is its bytes and whether bincode can serialize it.  *)

ExportKeys == Keys \cup {[DefaultHandle EXCEPT !.data = 1]}
ExportValues ==
    {[bytes |-> <<1>>, sized |-> TRUE], [bytes |-> <<1, 2>>, sized |-> TRUE],
     [bytes |-> <<1>>, sized |-> FALSE]}

\* InternHandle::as_uuid: Uuid::from_fields(link, hi, lo, &[0; 8])
as_uuid(h) == as_u64(h) \o <<0, 0, 0, 0>>

\* derive(Ord) of InternHandle: link, register_hi, register_lo, data
RECURSIVE SeqLess(_, _, _)
SeqLess(a, b, i) ==
    IF i > Len(a) THEN FALSE
    ELSE IF a[i] # b[i] THEN a[i] < b[i]
    ELSE SeqLess(a, b, i + 1)
HandleLess(g, h) == SeqLess(as_u64(g) \o <<g.data>>, as_u64(h) \o <<h.data>>, 1)

\* BTreeMap::iter: the keys in ascending order
RECURSIVE KeysInOrder(_)
KeysInOrder(S) ==
    IF S = {} THEN <<>>
    ELSE LET least == CHOOSE k \in S : \A j \in S \ {k} : HandleLess(k, j)
         IN  <<least>> \o KeysInOrder(S \ {least})

\* bincode::serialize(&value).ok(): a u64 length, little endian, then the
\* bytes; None for a value that reports no length
serialize(v) ==
    IF v.sized
    THEN Some(<<Len(v.bytes), 0, 0, 0, 0, 0, 0, 0>> \o v.bytes)
    ELSE None

\* InternMap::iter_entries: (key, Arc::downgrade(value)) in key order
iter_entries(m) ==
    LET ks == KeysInOrder(DOMAIN m)
    IN  [i \in 1..Len(ks) |-> <<ks[i], <<ks[i], m[ks[i]]>>>>]

\* the export ending at the first entry that yields nothing
RECURSIVE Export_stopsAtFailure(_, _, _)
Export_stopsAtFailure(m, es, i) ==
    IF i > Len(es) THEN <<>>
    ELSE LET strong == Weak_upgrade(m, es[i][2])
             s == IF strong = None THEN None ELSE serialize(strong[1])
         IN  IF s = None THEN <<>>
             ELSE <<<<as_uuid(es[i][1]), s[1]>>>>
                      \o Export_stopsAtFailure(m, es, i + 1)

\* the filter_map of iter_for_export over the entries from i on
RECURSIVE Export(_, _, _)
Export(m, es, i) ==
    IF i > Len(es) THEN <<>>
    ELSE LET strong == Weak_upgrade(m, es[i][2])
             s == IF strong = None THEN None ELSE serialize(strong[1])
         IN  (IF s = None THEN <<>> ELSE <<<<as_uuid(es[i][1]), s[1]>>>>)
                 \o Export(m, es, i + 1)

\* InternMap::iter_for_export, collected
iter_for_export(m) == Export(m, iter_entries(m), 1)

InitExport ==
    /\ interner = NewInterner("crc")
    /\ levels = <<>>
    /\ HANDLES = EmptyMap
    /\ entropy = 0
    /\ repr = None
    /\ derived = None
    /\ last = [op |-> "new", ok |-> TRUE, out |-> <<>>]
    /\ TableIdle
    /\ CrcIdle
    /\ ENTITY = EmptyMap
    /\ RuntimeIdle

\* assign_intern(h, v) run to its return
ExportAssign(h, v) ==
    /\ table' = Some(AssignIntern(Inner(table), h, v))
    /\ last' = [op |-> "assign_intern", ok |-> TRUE, out |-> <<>>]
    /\ UNCHANGED lookupFrame

\* iter_for_export() on the borrowed map, run to its end
ExportAll ==
    /\ table' = Some(Inner(table))
    /\ last' = [op |-> "export", ok |-> TRUE,
                out |-> iter_for_export(Inner(table))]
    /\ UNCHANGED lookupFrame

NextExport ==
    \/ \E h \in ExportKeys, v \in ExportValues : ExportAssign(h, v)
    \/ ExportAll

SpecExport == InitExport /\ [][NextExport]_vars

\* the entries that have something to export
Exportable(m) == {k \in DOMAIN m : serialize(m[k]) # None}
ExportPair(m, k) == <<as_uuid(k), serialize(m[k])[1]>>

\* C32: iter_for_export leaves the map as it was and yields one pair
\* (key.as_uuid(), serialized bytes) for every entry that can be serialized
\* and nothing else; called again on the unchanged map it yields the same
\* sequence.
ExportYieldsSerializableEntries ==
    [][last'.op = "export" =>
        LET m == Inner(table)
            out == last'.out
        IN  /\ Inner(table') = m
            /\ Len(out) = Cardinality(Exportable(m))
            /\ \A k \in Exportable(m) :
                    \E i \in 1..Len(out) : out[i] = ExportPair(m, k)
            /\ \A i \in 1..Len(out) :
                    \E k \in Exportable(m) : out[i] = ExportPair(m, k)
            /\ last.op = "export" => out = last.out
      ]_vars

\* C32 witness: an export that skipped an entry between two entries it
\* yielded, two of the keys having the same uuid
ExportSkippedOne ==
    /\ last.op = "export"
    /\ DOMAIN Inner(table) = ExportKeys
    /\ Len(last.out) = 2
    /\ last.out[1][1] = as_uuid(DefaultHandle)
    /\ last.out[2][1] # as_uuid(DefaultHandle)
    /\ ~Inner(table)[[DefaultHandle EXCEPT !.data = 1]].sized

\* C33: an attribute value that two levels with distinct handles carry is
\* stored once in the attribute's table: no table holds two entries, under
\* different handles, with an equal value.  (Every entry owns the value it
\* was assigned: Tag::assign hands assign_intern a fresh copy.)
EqualValueStoredOnce ==
    \A e1, e2 \in written :
        (e1[1] = e2[1] /\ e1[3] = e2[3]) => e1[2] = e2[2]

----------------------------------------------------------------------------
(* SpecCounter: one EntityInterner<CrcInterner> being fed tags, some of    *)
(* which fail, and finished several times.                                 *)

\* interner() raising the counter only when the inner interner returned Ok
EntityInterner_interner_countsOnSuccess(st, c, e, W, E) ==
    LET counter == st.counter + 1
        r == CrcInterner_call([c EXCEPT !.data = counter], e, W)
    IN  [ok |-> r.ok, handle |-> r.handle, used |-> counter,
         interner |-> [st EXCEPT !.counter = IF r.ok THEN counter ELSE @],
         crc |-> r.crc, W |-> r.W,
         E |-> IF r.ok THEN AssignIntern(E, r.handle, counter) ELSE E]

\* EntityInterner::interner: counter += 1, inner.set_data(counter),
\* inner.interner()?, ENTITY.assign_intern(result, counter)
EntityInterner_interner(st, c, e, W, E) ==
    LET counter == st.counter + 1
        r == CrcInterner_call([c EXCEPT !.data = counter], e, W)
    IN  [ok |-> r.ok, handle |-> r.handle, used |-> counter,
         interner |-> [st EXCEPT !.counter = counter],
         crc |-> r.crc, W |-> r.W,
         E |-> IF r.ok THEN AssignIntern(E, r.handle, counter) ELSE E]

InitCounter ==
    /\ interner = NewInterner("entity")
    /\ levels = <<>>
    /\ HANDLES = EmptyMap
    /\ entropy \in Entropies
    /\ repr = None
    /\ derived = None
    /\ last = Op("new", TRUE)
    /\ TableIdle
    /\ CrcIdle
    /\ ENTITY = EmptyMap
    /\ RuntimeIdle

\* EntityInterner::push_tag: inner.push_tag(value, tag)
EntityPushTag(value, tag) ==
    /\ interner.counter < MaxCounter
    /\ Len(cint.tags) < MaxEntityTags
    /\ cint' = push_tag(cint, value, tag)
    /\ hist' = [hist EXCEPT !.pushed = Append(@, value),
                            !.tags = Append(@, tag)]
    /\ last' = Op("push_tag", TRUE)
    /\ UNCHANGED <<linkerVars, tableVars, results, written,
                   entityVars, runtimeVars>>

\* EntityInterner::set_data(payload): a warning, nothing else
EntitySetData(payload) ==
    /\ interner.counter < MaxCounter
    /\ ~hist.dataSet
    /\ hist' = [hist EXCEPT !.dataSet = TRUE]
    /\ last' = Op("set_data", TRUE)
    /\ UNCHANGED <<linkerVars, tableVars, cint, results, written,
                   entityVars, runtimeVars>>

\* EntityInterner::interner()
EntityInternerCall ==
    /\ interner.counter < MaxCounter
    /\ LET r == EntityInterner_interner(interner, cint, entropy, written,
                                        ENTITY)
       IN  /\ interner' = r.interner
           /\ cint' = r.crc
           /\ written' = r.W
           /\ ENTITY' = r.E
           /\ results' = Append(results,
                   [used |-> r.used, ok |-> r.ok, handle |-> r.handle,
                    dataSet |-> hist.dataSet])
           /\ hist' = NoHist
           /\ last' = Op("interner", r.ok)
    /\ UNCHANGED <<levels, HANDLES, entropy, repr, derived, tableVars,
                   runtimeVars>>

NextCounter ==
    \/ \E tag \in {"a", "bad"} : EntityPushTag(1, tag)
    \/ \E payload \in Payloads : EntitySetData(payload)
    \/ EntityInternerCall

SpecCounter == InitCounter /\ [][NextCounter]_vars

\* C34: the k-th interner() call on an EntityInterner, failed or not, uses
\* counter value k; the handle it returns has data() k, so the returned
\* handles have strictly increasing data() values, none below 1; a
\* set_data call leaves the counter and the inner interner as they were and
\* does not show in the data() of the handle returned next.
EntityCounterMonotonic ==
    /\ interner.counter = Len(results)
    /\ \A k \in 1..Len(results) :
        /\ results[k].used = k
        /\ data(results[k].handle, entropy) = k
        /\ results[k].ok => entity(results[k].handle, ENTITY, entropy) = Some(k)
    /\ \A i, j \in 1..Len(results) :
        (i < j /\ results[i].ok /\ results[j].ok) =>
            /\ 1 <= data(results[i].handle, entropy)
            /\ data(results[i].handle, entropy)
                < data(results[j].handle, entropy)
    /\ cint.data = interner.counter

\* C34 witness: three calls, the second one failed, set_data(6) was called
\* before the third, and the handles returned carry 1 and 3
CountedAcrossFailure ==
    /\ Len(results) = 3
    /\ results[1].ok /\ ~results[2].ok /\ results[3].ok
    /\ results[3].dataSet
    /\ data(results[1].handle, entropy) = 1
    /\ data(results[3].handle, entropy) = 3
    /\ entropy # 0

----------------------------------------------------------------------------
(* Properties of Linker::link and Linker::level on any Linker.             *)

\* C35: link() returns Ok exactly when the Linker holds a level: every
\* chain push_level accepted passes the checks of Tag::link and its tail is
\* in HANDLES, the Repr returned being the entry of the tail; a Linker
\* without levels gets an error.
LinkOkForAcceptedLevels ==
    last.op = "link" =>
        /\ last.ok <=> levels # <<>>
        /\ last.ok =>
            /\ repr # None
            /\ levels[Len(levels)] \in DOMAIN HANDLES
            /\ repr[1] = HANDLES[levels[Len(levels)]]

\* C35 witness: a Linker holding root, LEVEL_1 and LEVEL_2 was linked
ThreeLevelsLinked ==
    /\ last.op = "link"
    /\ last.ok
    /\ Len(levels) = 3
    /\ level_flags(repr[1]) = LEVEL_2

\* Linker::level() as the builds run it: levels.len() - 1 on usize.  With
\* no level held the subtraction overflows: a panic where overflow checks
\* are on, usize::MAX where they are off.  Values are u64 words.
Linker_level_outcomes(lvls) ==
    IF Len(lvls) = 0
    THEN {[ok |-> FALSE, value |-> None],
          [ok |-> TRUE, value |-> Some(<<U16 - 1, U16 - 1, U16 - 1, U16 - 1>>)]}
    ELSE {[ok |-> TRUE, value |-> Some(<<0, 0, 0, Len(lvls) - 1>>)]}

\* Linker::level()
LevelCall ==
    /\ \E out \in Linker_level_outcomes(levels) :
        last' = [op |-> "level", ok |-> out.ok, value |-> out.value]
    /\ UNCHANGED <<linkerVars, tableVars, crcVars, entityVars, runtimeVars>>

NextLevel ==
    \/ NewLinker("crc")
    \/ \E lv \in AllLevels : PushLevel(lv)
    \/ LevelCall

SpecLevel == Init /\ [][NextLevel]_vars

\* C36: in every Linker state, the one Linker::default() leaves included,
\* level() returns, and returns the index of the last pushed level, a value
\* in 0..=7.
LevelReturnsIndex ==
    last.op = "level" =>
        /\ last.ok
        /\ \E n \in 0..7 :
            /\ last.value = Some(<<0, 0, 0, n>>)
            /\ n = Len(levels) - 1

----------------------------------------------------------------------------
(* Repr::downgrade against Linker::link.                                   *)

\* C37: for a Repr r that Linker::link returned, r.downgrade(0) returns r,
\* and r.downgrade(count) returns the Repr Linker::link returns for the
\* levels of r that are kept.
DowngradeMatchesLink ==
    (last.op = "downgrade" /\ repr # None) =>
        LET g == get_levels(repr[1], HANDLES, entropy)
            kept == SubSeq(g.levels, 1, Len(g.levels) - last.count)
        IN  /\ last.count = 0 => (last.ok /\ derived = repr)
            /\ last.ok => derived = Linker_link(kept, HANDLES).repr

----------------------------------------------------------------------------
(* The tables over a run of one thread.                                    *)

\* every entry of table T is an entry of table U
Keeps(T, U) == \A k \in DOMAIN T : k \in DOMAIN U /\ U[k] = T[k]

\* C38: on one thread no operation removes an entry of HANDLES or of ENTITY
\* or changes its value, and get_levels() of the Repr held returns the same
\* list after the operation as before it.
TablesWriteOnce ==
    [][/\ Keeps(HANDLES, HANDLES')
       /\ Keeps(ENTITY, ENTITY')
       /\ entropy' = entropy
       /\ (repr # None /\ HANDLES' # HANDLES) =>
            LET before == get_levels(repr[1], HANDLES, entropy)
            IN  before.returns =>
                    get_levels(repr[1], HANDLES', entropy) = before
      ]_vars

\* C38 witness: HANDLES holds the entry of LEVEL_1 linked from one root
\* while the Linker that was linked last holds the other root before it
FirstLinkKept ==
    /\ last.op = "link"
    /\ last.ok
    /\ Len(levels) = 2
    /\ repr # None
    /\ repr[1].link # Xor32(register(levels[1]), register(levels[2]))

----------------------------------------------------------------------------
(* SpecWeak: threads calling assign_intern and copy on one InternTable<T>. *)
(* An entry is the Arc the map holds: its value and the thread whose       *)
(* send_modify allocated it.  A thread is idle, between the contains_key   *)
(* block and send_modify of assign_intern ("insert"), or between get and   *)
(* Weak::upgrade of copy ("upgrade").                                      *)

\* assign_intern(h, v), first block: the contains_key check under borrow()
WeakAssignCheck(t, h, v) ==
    /\ pc[t] = "idle"
    /\ LET m == Inner(table)
       IN  /\ table' = Some(m)
           /\ IF h \in DOMAIN m
              THEN /\ UNCHANGED <<pc, arg>>
                   /\ last' = [op |-> "skip", ok |-> TRUE, h |-> h]
              ELSE /\ pc' = [pc EXCEPT ![t] = "insert"]
                   /\ arg' = [arg EXCEPT ![t] = Some([h |-> h, v |-> v])]
                   /\ last' = [op |-> "check", ok |-> TRUE, h |-> h]
    /\ UNCHANGED <<linkerVars, crcVars, seen, calls, given, entityVars,
                   runtimeVars>>

\* assign_intern(h, v), second block: send_modify inserts Arc::new(v), the
\* Arc that was there is dropped by the map, and the call returns Ok
WeakAssignInsert(t) ==
    /\ pc[t] = "insert"
    /\ LET m == Inner(table)
           h == arg[t][1].h
       IN  /\ table' = Some(SendModify(m, h, [value |-> arg[t][1].v,
                                              arc |-> t]))
           /\ last' = [op |-> IF h \in DOMAIN m THEN "replace" ELSE "insert",
                       ok |-> TRUE, h |-> h]
    /\ pc' = [pc EXCEPT ![t] = "idle"]
    /\ arg' = [arg EXCEPT ![t] = None]
    /\ UNCHANGED <<linkerVars, crcVars, seen, calls, given, entityVars,
                   runtimeVars>>

\* copy(&h), first half: get(&h) returns Ok(Arc::downgrade(value)) or Err;
\* on Err copy returns None
CopyGet(t, h) ==
    /\ pc[t] = "idle"
    /\ LET m == Inner(table)
           g == Table_get(m, h)
       IN  /\ table' = Some(m)
           /\ IF g.ok
              THEN /\ pc' = [pc EXCEPT ![t] = "upgrade"]
                   /\ arg' = [arg EXCEPT ![t] = Some([h |-> h, weak |-> g.weak])]
                   /\ last' = [op |-> "get", ok |-> TRUE, h |-> h]
              ELSE /\ UNCHANGED <<pc, arg>>
                   /\ last' = [op |-> "copy", ok |-> TRUE, h |-> h,
                               found |-> FALSE, out |-> None]
    /\ UNCHANGED <<linkerVars, crcVars, seen, calls, given, entityVars,
                   runtimeVars>>

\* copy(&h), second half: Weak::upgrade, then the value is copied
CopyUpgrade(t) ==
    /\ pc[t] = "upgrade"
    /\ LET strong == Weak_upgrade(Inner(table), arg[t][1].weak)
       IN  last' = [op |-> "copy", ok |-> TRUE, h |-> arg[t][1].h,
                    found |-> TRUE,
                    out |-> IF strong = None THEN None
                            ELSE Some(strong[1].value)]
    /\ pc' = [pc EXCEPT ![t] = "idle"]
    /\ arg' = [arg EXCEPT ![t] = None]
    /\ UNCHANGED <<linkerVars, crcVars, table, seen, calls, given,
                   entityVars, runtimeVars>>

NextWeak ==
    \/ \E t \in Threads, h \in Keys, v \in Values : WeakAssignCheck(t, h, v)
    \/ \E t \in Threads : WeakAssignInsert(t)
    \/ \E t \in Threads, h \in Keys : CopyGet(t, h)
    \/ \E t \in Threads : CopyUpgrade(t)

SpecWeak == InitTable /\ [][NextWeak]_vars

\* C39: a copy of h whose get found the entry, so one that started after
\* an assign_intern(h, _) call had inserted and returned, returns a value:
\* the upgrade of the Weak it got never fails.
CopyAfterAssignReturnsValue ==
    (last.op = "copy" /\ last.found) => last.out # None

----------------------------------------------------------------------------
(* SpecReject: a Linker over a CrcInterner taking Resource, Field and Node *)
(* levels, its Repr upgraded with Node levels.  `written` holds what the   *)
(* Node levels' tags assigned to the tables of repr/node.rs.               *)

\* the Node levels pushed here: no symbol, or one of the two symbols
RejectLevels ==
    {lv \in NodeLevels : lv["input"] = None /\ lv["bidx"] = None}

\* Linker::push_level(level) with a NodeLevel: configure, then the check
PushNode(lv) ==
    /\ LET r == NodeLevel_configure(lv, entropy, written)
           rejected == PushOutOfOrder(levels, r.handle)
       IN  /\ written' = r.W
           /\ levels' = IF rejected THEN levels ELSE Append(levels, r.handle)
           /\ last' = Op("push_level", ~rejected)
    /\ UNCHANGED <<interner, HANDLES, entropy, repr, derived, tableVars,
                   cint, hist, results, entityVars, runtimeVars>>

\* Repr::upgrade(CrcInterner::default(), level) with a NodeLevel:
\* configure, then Tag::link from the tail with its link cleared
UpgradeNode(lv) ==
    /\ repr # None
    /\ LET r == NodeLevel_configure(lv, entropy, written)
           from == [repr[1] EXCEPT !.link = Zero32]
           t == TagLink(from, r.handle, HANDLES)
       IN  /\ written' = r.W
           /\ HANDLES' = t.H
           /\ repr' = IF t.ok THEN Some(t.out) ELSE repr
           /\ last' = Op("upgrade", t.ok)
    /\ UNCHANGED <<interner, levels, entropy, derived, tableVars,
                   cint, hist, results, entityVars, runtimeVars>>

NextReject ==
    \/ \E lv \in LevelsTo(1) : PushLevel(lv)
    \/ \E lv \in RejectLevels : PushNode(lv)
    \/ Link
    \/ \E lv \in RejectLevels : UpgradeNode(lv)

SpecReject == Init /\ [][NextReject]_vars

\* C40: a push_level or Repr::upgrade call that fails on the level order
\* leaves every intern table as it was: the attribute tables, HANDLES and
\* ENTITY.
RejectedLevelLeavesTables ==
    [][(last'.op \in {"push_level", "upgrade"} /\ ~last'.ok) =>
            /\ written' = written
            /\ HANDLES' = HANDLES
            /\ ENTITY' = ENTITY
      ]_vars

====
